---- MODULE Spec2Model ----
(***************************************************************************)
(* Shipment / invoice reconciliation matcher of the Drives scripts.        *)
(*                                                                         *)
(* The matcher follows src/Drive_Sheets.py (processar_dados_descargas,      *)
(* processar_dados_transportes, cruzar_e_atualizar_transportes, main); the *)
(* copy in src/Capacidade.py has the same two stages and the same          *)
(* branches.  Further specifications follow the update loop of             *)
(* 'Atualização Transito Drives.py', the group reconciliation of           *)
(* 'Atualização Em Transito - Hidratado.py', orquestrador.py and the two   *)
(* text normalizers.                                                       *)
(*                                                                         *)
(* Text cells are sequences of one-character strings so that strip(),      *)
(* lower(), the [^a-z0-9] filter and the substring tests are computed and  *)
(* not assumed.  Dates are small integers; NaT stands for a blank / NaN    *)
(* date cell.                                                              *)
(***************************************************************************)
EXTENDS Integers, Sequences, FiniteSets, TLC

(***************************************************************************)
(* Bounds of the model.                                                    *)
(***************************************************************************)
\* Rows read in one run, transport rows and descarga rows together.
MaxLinhas == 3

(***************************************************************************)
(* Text helpers: Python str.strip(), str.lower(), re.sub, `in`.            *)
(***************************************************************************)
Minusculas == <<"a","b","c","d","e","f","g","h","i","j","k","l","m",
                "n","o","p","q","r","s","t","u","v","w","x","y","z">>
Maiusculas == <<"A","B","C","D","E","F","G","H","I","J","K","L","M",
                "N","O","P","Q","R","S","T","U","V","W","X","Y","Z">>
Digitos == {"0","1","2","3","4","5","6","7","8","9"}
Espacos == {" "}

Range(s) == {s[i] : i \in 1..Len(s)}

AlfaNumMinusculo == Range(Minusculas) \cup Digitos

\* str.lower() on one character: A-Z to a-z, accented capitals to their
\* accented lower case, everything else unchanged.
ParaMinuscula ==
    [c \in Range(Maiusculas) \cup {"Â"} |->
        IF c = "Â" THEN "â"
        ELSE Minusculas[CHOOSE i \in 1..Len(Maiusculas) : Maiusculas[i] = c]]

LowerChar(c) == IF c \in DOMAIN ParaMinuscula THEN ParaMinuscula[c] ELSE c

Lower(s) == [i \in 1..Len(s) |-> LowerChar(s[i])]

RECURSIVE LStrip(_)
LStrip(s) == IF s # <<>> /\ Head(s) \in Espacos THEN LStrip(Tail(s)) ELSE s

RECURSIVE RStrip(_)
RStrip(s) == IF s # <<>> /\ s[Len(s)] \in Espacos
             THEN RStrip(SubSeq(s, 1, Len(s) - 1)) ELSE s

Strip(s) == RStrip(LStrip(s))

\* re.sub('[^a-z0-9]', '', s)
ApenasAlfaNum(s) == SelectSeq(s, LAMBDA c : c \in AlfaNumMinusculo)

\* Python `sub in s` on strings.
Contem(sub, s) ==
    \E i \in 0..(Len(s) - Len(sub)) : SubSeq(s, i + 1, i + Len(sub)) = sub

\* The null values of a cell: the float NaN of pandas and Python's None.
\* They are no texts; a text is a sequence of one-character strings.
NaN == <<"NaN">>
None == <<"None">>

\* str(x) and Series.astype(str): a text is itself, the null values become
\* the texts 'nan' and 'None'.
Str(x) ==
    IF x = NaN THEN <<"n", "a", "n">>
    ELSE IF x = None THEN <<"N", "o", "n", "e">>
    ELSE x

\* Variant without lower(): capitals fall to the [^a-z0-9] filter.
normalizar_sem_lower(s) == ApenasAlfaNum(Strip(Str(s)))

\* _normalizar_texto_para_chave: str(x).strip().lower(), then drop every
\* character outside [a-z0-9].
normalizar_texto_para_chave(s) == ApenasAlfaNum(Lower(Strip(Str(s))))

Sublinhado == <<"_">>


(***************************************************************************)
(* Program constants (Config and the literals of the matcher).             *)
(***************************************************************************)
\* pd.NaT / NaN: a blank or unparseable date cell (dates are 1, 2, ...).
NaT == 0

TxtEmTransito == <<"E","m"," ","T","r","â","n","s","i","t","o">>
TxtAguardandoDescarga == <<"A","g","u","a","r","d","a","n","d","o"," ","D","e","s","c","a","r","g","a">>
TxtEmTransitoByPass == <<"E","m"," ","T","r","â","n","s","i","t","o"," ","B","y"," ","P","a","s","s">>
TxtAguardandoByPass == <<"A","g","u","a","r","d","a","n","d","o"," ","B","y"," ","P","a","s","s">>
TxtProgramado == <<"P","r","o","g","r","a","m","a","d","o">>

\* Config.GOOGLE_SHEETS_CONFIG["status_para_incluir"]
status_para_incluir ==
    <<TxtEmTransito, TxtAguardandoDescarga, TxtEmTransitoByPass, TxtAguardandoByPass>>

\* Config.DESCARGAS_CONFIG["products_to_include"]
products_to_include ==
    <<<<"a","n","i","d","r","o">>,
      <<"h","i","d","r","a","t","a","d","o">>,
      <<"b","i","o","d","i","e","s","e","l">>,
      <<"g","a","s","o","l","i","n","a"," ","a">>,
      <<"g","a","s","o","l","i","n","a"," ","c">>,
      <<"d","i","e","s","e","l"," ","a"," ","s","1","0">>,
      <<"d","i","e","s","e","l"," ","b"," ","s","1","0">>,
      <<"d","i","e","s","e","l"," ","a"," ","s","5","0","0">>,
      <<"d","i","e","s","e","l"," ","b"," ","s","5","0","0">>,
      <<"m","g","o">>>>

\* Literals of cruzar_e_atualizar_transportes.
NaoAtualizado == "Não Atualizado"
Etapa1ChavePrimaria == "Etapa 1 - Chave Primária"
Etapa2Placa == "Etapa 2 - Placa"
aguardando_descarga == <<"a","g","u","a","r","d","a","n","d","o"," ","d","e","s","c","a","r","g","a">>
descarregado == <<"d","e","s","c","a","r","r","e","g","a","d","o">>
AGUARDANDO_DESCARGA == <<"A","G","U","A","R","D","A","N","D","O"," ","D","E","S","C","A","R","G","A">>
DESCARREGADO == <<"D","E","S","C","A","R","R","E","G","A","D","O">>
transito == <<"t","r","â","n","s","i","t","o">>
aguardando == <<"a","g","u","a","r","d","a","n","d","o">>


\* Config.FILENAME_MAP: file-name keyword -> standard depot name (the entry
\* for the depot of the model; the other entries have the same shape).
FILENAME_MAP == << <<<<"A","R","U","J","A">>, <<"A","r","u","j","a">>>> >>

(***************************************************************************)
(* Input cells.  A transport row is a row of the Google sheet, a descarga  *)
(* row is a row of the DataLake workbook.                                  *)
(***************************************************************************)
Datas == {1, 2}
DatasDescarga == {3}

StatusPlanilha == {TxtEmTransito, TxtAguardandoDescarga, TxtAguardandoByPass, TxtProgramado}
NfesPlanilha == {<<"1","2","3">>}
CavalosPlanilha == {<<"A","B","C","1","2","3","4">>}
NotasDataLake == {<<"1","2","3">>, <<"1","2","4">>}
PlacasDataLake == {<<"A","B","C","1","2","3","4">>, <<"x","y","z","-","9","8","7","6">>}

TransportesPlanilha ==
    [status : StatusPlanilha,
     nfe : NfesPlanilha,
     produto : {<<"H","I","D","R","A","T","A","D","O">>},
     recebedor : {<<"A","r","u","j","a">>},
     cavalo : CavalosPlanilha,
     data_de_carregamento : Datas \cup {NaT},
     data_chegada : {NaT},
     data_descarga : {NaT}]

DescargasDataLake ==
    [nota : NotasDataLake,
     produto : {<<"H","i","d","r","a","t","a","d","o"," ">>},
     Fonte_do_Arquivo : {<<"A","R","U","J","A",".","x","l","s","x">>},
     placa : PlacasDataLake,
     data : Datas,
     data_de_descarga : DatasDescarga \cup {NaT}]

\* The non-empty sequences over S of length at most n.
SeqsDe(S, n) == UNION {[1..k -> S] : k \in 1..n}

(***************************************************************************)
(* State.                                                                  *)
(***************************************************************************)
VARIABLES
    pc,                       \* position in main / cruzar_e_atualizar_transportes
    raw_transportes,          \* rows read from the transport sheet
    raw_descargas,            \* rows read from the DataLake workbook
    df_transportes,           \* processar_dados_transportes(raw_transportes)
    df_descargas,             \* processar_dados_descargas(raw_descargas)
    transportes_atualizado,   \* working copy updated by the matcher
    indices_descargas_usados, \* labels of the consumed descarga rows
    mapa_chaves,              \* primary index  (chave_primaria -> row)
    mapa_placa,               \* secondary index (chave_placa_fonte_produto -> row)
    transportes_para_etapa_2, \* snapshot of the rows still 'Não Atualizado'
    matches,                  \* log of the hits: <<stage, transport label, descarga label>>
    celulas_escritas,         \* sheet cells written: <<row label, column, value>>
    relatorio,                \* divergence report: written or not, and its rows
    logging_niveis,           \* levels of the records logged by main's handlers
    excecao,                  \* the exception raised inside main's try, if any
    banners,                  \* update_status_banner calls on the sheet: colour, applied or not
    \* 'Atualização Transito Drives.py': the update loop of main.
    pc_transito,              \* position in main
    df_match,                 \* the merged rows to write, in order
    nfs_ja_usadas,            \* invoice numbers already on a sheet row
    count,                    \* rows counted as updated
    linha,                    \* position of the loop of main in df_match
    coluna,                   \* position of update_excel_row in `updates`
    tentativa,                \* loop variable of the retry loop
    celula_log,               \* attempts on the cell patched last, and the sleeps
    ultima_falha,             \* the cell given up last: <<linha, coluna>>
    log_transito,             \* levels of the records logged by this script
    df_transporte,            \* rows read from the transport workbooks
    df_bsoft,                 \* rows read from the Bsoft workbook
    escritas,                 \* update_excel_row calls: row, number, cells that took
    \* orquestrador.py
    pc_orq,                   \* position in __main__ / executar_pipeline
    execucoes,                \* completed calls of executar_pipeline
    script,                   \* position of the for loop in scripts_para_rodar
    subprocessos,             \* child processes alive
    tentados,                 \* per script: subprocess.run calls in this pipeline run
    ultimo_resultado,         \* how the last subprocess.run ended
    houve_falha,              \* some script of this pipeline run failed
    \* 'Atualização Em Transito - Hidratado.py': one group of main's loop.
    pc_hid,                   \* position in the body of the loop over the groups
    sp_rows,                  \* the planned legs of the group, in sheet order
    faturado_rows,            \* the invoices found for the group by plate
    faturado_rows_list,       \* the same, sorted by issue date
    pedidos_celulas,          \* per leg: the values passed to update_cell
    linhas_adicionadas,       \* invoice numbers of the rows passed to add_rows
    df_faturados,             \* the pool: the invoices not yet on a sheet row
    \* The two normalizers applied to a pair of raw texts.
    pc_norm,                  \* "entrada" before the call, "normalizado" after
    entradas,                 \* the two raw texts
    chaves,                   \* their _normalizar_texto_para_chave results
    textos,                   \* their DataProcessor._normalizar_texto results
    \* Runs of the scripts one after the other on one transport sheet.
    historico,                \* the sheet before the first run and after each run
    \* One call of executar_processo of Capacidade.py.
    pc_proc,                  \* "chamada" before the call, "fim" after it
    chamada,                  \* the arguments manter_historico, aplicar_filtro_data
    aba_destino,              \* the rows of the destination tab
    aba_inicial,              \* the rows the tab held when the call started
    log_proc                  \* the levels logged by the call

\* The part of the state that main touches after the matcher returned.
vars_main == <<celulas_escritas, relatorio, logging_niveis, excecao, banners>>

\* State of 'Atualização Transito Drives.py'.
vars_transito == <<pc_transito, df_match, nfs_ja_usadas, count, linha, coluna,
                   tentativa, celula_log, ultima_falha, log_transito,
                   df_transporte, df_bsoft, escritas>>

\* State of the other scripts, untouched by Drive_Sheets.py.
\* State of orquestrador.py.
vars_orq == <<pc_orq, execucoes, script, subprocessos, tentados, ultimo_resultado,
              houve_falha>>

\* State of 'Atualização Em Transito - Hidratado.py'.
vars_hid == <<pc_hid, sp_rows, faturado_rows, faturado_rows_list, pedidos_celulas,
              linhas_adicionadas, df_faturados>>

\* State of the calls of the normalizers.
vars_norm == <<pc_norm, entradas, chaves, textos>>

\* State of the sequence of runs.
vars_rodadas == <<historico>>

\* State of a call of executar_processo.
vars_proc == <<pc_proc, chamada, aba_destino, aba_inicial, log_proc>>

vars_outros == <<vars_transito, vars_orq, vars_hid, vars_norm, vars_rodadas, vars_proc>>

vars == <<pc, raw_transportes, raw_descargas, df_transportes, df_descargas,
          transportes_atualizado, indices_descargas_usados, mapa_chaves,
          mapa_placa, transportes_para_etapa_2, matches, vars_main, vars_outros>>

(***************************************************************************)
(* processar_dados_descargas / processar_dados_transportes.                *)
(***************************************************************************)
\* A text key of three normalized parts joined by '_'.
Chave(a, b, c) ==
    normalizar_texto_para_chave(a) \o Sublinhado \o
    normalizar_texto_para_chave(b) \o Sublinhado \o
    normalizar_texto_para_chave(c)

\* 'Fonte Padronizada': the file name, replaced by the mapped depot name when
\* it contains a FILENAME_MAP keyword (case-insensitive).
RECURSIVE FontePadronizadaDe(_, _, _)
FontePadronizadaDe(arquivo, atual, k) ==
    IF k > Len(FILENAME_MAP) THEN atual
    ELSE FontePadronizadaDe(arquivo,
            IF Contem(Lower(FILENAME_MAP[k][1]), Lower(arquivo))
            THEN FILENAME_MAP[k][2] ELSE atual,
            k + 1)

Fonte_Padronizada(arquivo) == FontePadronizadaDe(arquivo, arquivo, 1)

\* One descarga row after processing: nota stripped, produto stripped and
\* lower-cased, depot standardised, both keys added.  `idx` is the row label.
DescargaProcessada(r, idx) ==
    LET nota == Strip(Str(r.nota))
        produto == Lower(Strip(r.produto))
        fonte == Fonte_Padronizada(r.Fonte_do_Arquivo)
    IN [index |-> idx,
        nota |-> nota,
        produto |-> produto,
        Fonte_Padronizada |-> fonte,
        placa |-> r.placa,
        data |-> r.data,
        data_de_descarga |-> r.data_de_descarga,
        chave_primaria |-> Chave(nota, produto, fonte),
        chave_placa_fonte_produto |-> Chave(r.placa, produto, fonte)]

\* Rows are labelled by their position (reset_index), then filtered by the
\* product allow-list and a parsed issue date; the labels are kept.
ProdutosIncluidos == Range(products_to_include)

processar_dados_descargas(raw) ==
    LET rows == [i \in 1..Len(raw) |-> DescargaProcessada(raw[i], i)]
    IN SelectSeq(rows, LAMBDA r :
           /\ r.produto \in ProdutosIncluidos
           /\ r.data # NaT)

TransporteProcessado(r, idx) ==
    [index |-> idx,
     status |-> r.status,
     nfe |-> r.nfe,
     produto |-> r.produto,
     recebedor |-> r.recebedor,
     cavalo |-> r.cavalo,
     data_de_carregamento |-> r.data_de_carregamento,
     data_chegada |-> r.data_chegada,
     data_descarga |-> r.data_descarga,
     chave_primaria |-> Chave(r.nfe, r.produto, r.recebedor),
     chave_placa_recebedor_produto |-> Chave(r.cavalo, r.produto, r.recebedor)]

\* Keeps the rows whose lower-cased status is one of status_para_incluir
\* (lower-cased), with their labels, and adds both keys.
status_validos == {Lower(status_para_incluir[k]) : k \in 1..Len(status_para_incluir)}

\* Variant that keeps the rows of every status.
processar_dados_transportes_sem_filtro(raw) ==
    [i \in 1..Len(raw) |-> TransporteProcessado(raw[i], i)]

processar_dados_transportes(raw) ==
    LET rows == [i \in 1..Len(raw) |-> TransporteProcessado(raw[i], i)]
    IN SelectSeq(rows, LAMBDA r : Lower(r.status) \in status_validos)


(***************************************************************************)
(* cruzar_e_atualizar_transportes.                                         *)
(***************************************************************************)
\* drop_duplicates(subset=[col], keep='last'): a row stays unless a later
\* row carries the same key.
RECURSIVE DropDuplicatesLastDe(_, _, _)
DropDuplicatesLastDe(df, col, k) ==
    IF k > Len(df) THEN <<>>
    ELSE (IF \E j \in (k + 1)..Len(df) : df[j][col] = df[k][col]
          THEN <<>> ELSE <<df[k]>>)
         \o DropDuplicatesLastDe(df, col, k + 1)

\* Variant keep='first': a row stays unless an earlier row carries the key.
drop_duplicates_keep_first(df, col) ==
    SelectSeq(df, LAMBDA r :
        \A j \in 1..Len(df) :
            (df[j][col] = r[col] /\ df[j].index # r.index) => df[j].index > r.index)

drop_duplicates_keep_last(df, col) == DropDuplicatesLastDe(df, col, 1)

\* set_index(col).to_dict('index'): rows are entered in order, a later row
\* with the same key overwrites the entry.
RECURSIVE ToDictDe(_, _, _, _)
ToDictDe(df, col, d, k) ==
    IF k > Len(df) THEN d
    ELSE ToDictDe(df, col,
            [c \in (DOMAIN d) \cup {df[k][col]} |->
                IF c = df[k][col] THEN df[k] ELSE d[c]],
            k + 1)

to_dict_index(df, col) == ToDictDe(df, col, <<>>, 1)

ConstruirMapa(df, col) == to_dict_index(drop_duplicates_keep_last(df, col), col)

\* Variant with the test on the unload date inverted.
NovoStatusInvertido(match) ==
    IF match.data_de_descarga # NaT THEN aguardando_descarga ELSE descarregado

\* novo_status: 'aguardando descarga' when the descarga has no unload date,
\* 'descarregado' when it has one.
NovoStatus(match) ==
    IF match.data_de_descarga = NaT THEN aguardando_descarga ELSE descarregado

\* Variant whose 'aguardando' -> 'descarregado' branch sets the status and
\* forgets data_descarga.
AtualizacoesSemDataDescarga(transporte, match, fonte) ==
    LET status_original == Lower(transporte.status)
        novo_status == NovoStatus(match)
        base == [c \in {"data_chegada", "fonte_atualizacao"} |->
                    IF c = "data_chegada" THEN match.data ELSE fonte]
    IN IF novo_status = status_original THEN <<>>
       ELSE IF Contem(transito, status_original) /\ novo_status = aguardando_descarga
            THEN [c \in (DOMAIN base) \cup {"status"} |->
                    IF c = "status" THEN AGUARDANDO_DESCARGA ELSE base[c]]
       ELSE IF Contem(transito, status_original) /\ novo_status = descarregado
            THEN [c \in (DOMAIN base) \cup {"status", "data_descarga"} |->
                    IF c = "status" THEN DESCARREGADO
                    ELSE IF c = "data_descarga" THEN match.data_de_descarga
                    ELSE base[c]]
       ELSE IF Contem(aguardando, status_original) /\ novo_status = descarregado
            THEN [c \in (DOMAIN base) \cup {"status"} |->
                    IF c = "status" THEN DESCARREGADO ELSE base[c]]
       ELSE base

\* The cells written for one hit (`transporte` is the row as iterated,
\* `match` the descarga row found): nothing when the status computed from the
\* descarga equals the current one; otherwise data_chegada and
\* fonte_atualizacao, and status / data_descarga by branch.
Atualizacoes(transporte, match, fonte) ==
    LET status_original == Lower(transporte.status)
        novo_status == NovoStatus(match)
        base == [c \in {"data_chegada", "fonte_atualizacao"} |->
                    IF c = "data_chegada" THEN match.data ELSE fonte]
    IN IF novo_status = status_original THEN <<>>
       ELSE IF Contem(transito, status_original) /\ novo_status = aguardando_descarga
            THEN [c \in (DOMAIN base) \cup {"status"} |->
                    IF c = "status" THEN AGUARDANDO_DESCARGA ELSE base[c]]
       ELSE IF \/ Contem(transito, status_original) /\ novo_status = descarregado
               \/ Contem(aguardando, status_original) /\ novo_status = descarregado
            THEN [c \in (DOMAIN base) \cup {"status", "data_descarga"} |->
                    IF c = "status" THEN DESCARREGADO
                    ELSE IF c = "data_descarga" THEN match.data_de_descarga
                    ELSE base[c]]
       ELSE base

\* transportes_atualizado.loc[index, col] = value, for every col of `upd`.
Loc(df, index, upd) ==
    [i \in 1..Len(df) |->
        IF df[i].index = index
        THEN [c \in DOMAIN df[i] |-> IF c \in DOMAIN upd THEN upd[c] ELSE df[i][c]]
        ELSE df[i]]

\* Variant that records nothing.
ConsumirNada(usados, match) == usados

\* indices_descargas_usados.add(match['original_index'])
Consumir(usados, match) == usados \cup {match.index}

\* Variant without the comparison of the two dates.
DataValidaSemComparacao(transporte, match) ==
    transporte.data_de_carregamento # NaT

\* pd.notna(data_de_carregamento) and match['data'] >= data_de_carregamento
DataValida(transporte, match) ==
    /\ transporte.data_de_carregamento # NaT
    /\ match.data >= transporte.data_de_carregamento

\* Stage 1 loop: every row of transportes_atualizado looks its chave_primaria
\* up in mapa_chaves.
RECURSIVE Etapa1Loop(_, _, _, _, _)
Etapa1Loop(df, mapa, usados, log, k) ==
    IF k > Len(df) THEN [df |-> df, usados |-> usados, log |-> log]
    ELSE LET transporte == df[k]
         IN IF transporte.chave_primaria \in DOMAIN mapa
            THEN LET match == mapa[transporte.chave_primaria]
                 IN Etapa1Loop(
                        Loc(df, transporte.index,
                            Atualizacoes(transporte, match, Etapa1ChavePrimaria)),
                        mapa,
                        Consumir(usados, match),
                        log \cup {<<1, transporte.index, match.index>>},
                        k + 1)
            ELSE Etapa1Loop(df, mapa, usados, log, k + 1)

\* Stage 2 loop over the snapshot `para2`: the plate key is recomputed from
\* the row, and a hit counts only with a loading date not after the issue date.
RECURSIVE Etapa2Loop(_, _, _, _, _, _)
Etapa2Loop(df, para2, mapa, usados, log, k) ==
    IF k > Len(para2) THEN [df |-> df, usados |-> usados, log |-> log]
    ELSE LET transporte == para2[k]
             chave_busca_placa ==
                 Chave(transporte.cavalo, transporte.produto, transporte.recebedor)
         IN IF /\ chave_busca_placa \in DOMAIN mapa
               /\ DataValida(transporte, mapa[chave_busca_placa])
            THEN LET match == mapa[chave_busca_placa]
                 IN Etapa2Loop(
                        Loc(df, transporte.index,
                            Atualizacoes(transporte, match, Etapa2Placa)),
                        para2, mapa,
                        Consumir(usados, match),
                        log \cup {<<2, transporte.index, match.index>>},
                        k + 1)
            ELSE Etapa2Loop(df, para2, mapa, usados, log, k + 1)

ComFonte(df) ==
    [i \in 1..Len(df) |->
        [c \in (DOMAIN df[i]) \cup {"fonte_atualizacao"} |->
            IF c = "fonte_atualizacao" THEN NaoAtualizado ELSE df[i][c]]]

(***************************************************************************)
(* Actions.                                                                *)
(***************************************************************************)
\* The other scripts are not running.
TransitoParado ==
    /\ pc_transito = "parado"
    /\ df_match = <<>>
    /\ nfs_ja_usadas = {}
    /\ count = 0
    /\ linha = 1
    /\ coluna = 1
    /\ tentativa = 0
    /\ celula_log = [linha |-> 0, coluna |-> 0, resultados |-> <<>>, sonos |-> <<>>]
    /\ ultima_falha = <<0, 0>>
    /\ log_transito = {}
    /\ df_transporte = <<>>
    /\ df_bsoft = <<>>
    /\ escritas = <<>>

\* scripts_para_rodar (file names under CAMINHO_BASE).
scripts_para_rodar ==
    <<"Qive.py", "Qlik_View.py", "Qlik_Sense.py", "Tratamento das Vendas.py",
      "Tratamento dos Pendentes.py", "Painel de tanques.py", "Capacidade.py",
      "Trafegus.py", "Atualização Programados Drives.py", "Bsoft.py",
      "Atualização Transito Drives.py", "Drive Anidro e Biodiesel.py",
      "Drive Hidratado.py", "Drive Diesel e Gasolina.py", "Transporte.py">>

NenhumTentado == [i \in 1..Len(scripts_para_rodar) |-> 0]

OrquestradorParado ==
    /\ pc_orq = "parado"
    /\ execucoes = 0
    /\ script = 1
    /\ subprocessos = 0
    /\ tentados = NenhumTentado
    /\ ultimo_resultado = "nenhum"
    /\ houve_falha = FALSE

HidratadoParado ==
    /\ pc_hid = "parado"
    /\ sp_rows = <<>>
    /\ faturado_rows = <<>>
    /\ faturado_rows_list = <<>>
    /\ pedidos_celulas = <<>>
    /\ linhas_adicionadas = <<>>
    /\ df_faturados = <<>>

NormalizadorParado ==
    /\ pc_norm = "parado"
    /\ entradas = <<>>
    /\ chaves = <<>>
    /\ textos = <<>>

RodadasParadas == historico = <<>>

ProcessoParado ==
    /\ pc_proc = "parado"
    /\ chamada = <<>>
    /\ aba_destino = <<>>
    /\ aba_inicial = <<>>
    /\ log_proc = {}

OutrosParados ==
    TransitoParado /\ OrquestradorParado /\ HidratadoParado /\ NormalizadorParado /\ RodadasParadas /\ ProcessoParado

Init ==
    /\ pc = "inicio"
    /\ \E n \in 1..(MaxLinhas - 1) :
          /\ raw_transportes \in [1..n -> TransportesPlanilha]
          /\ raw_descargas \in SeqsDe(DescargasDataLake, MaxLinhas - n)
    /\ df_transportes = <<>>
    /\ df_descargas = <<>>
    /\ transportes_atualizado = <<>>
    /\ indices_descargas_usados = {}
    /\ mapa_chaves = <<>>
    /\ mapa_placa = <<>>
    /\ transportes_para_etapa_2 = <<>>
    /\ matches = {}
    /\ celulas_escritas = {}
    /\ relatorio = [escrito |-> FALSE, linhas |-> <<>>]
    /\ logging_niveis = {}
    /\ excecao = "nenhuma"
    /\ banners = <<>>
    /\ OutrosParados

\* main: both sources are processed (filters and keys).
ProcessarDados ==
    /\ pc = "inicio"
    /\ df_descargas' = processar_dados_descargas(raw_descargas)
    /\ df_transportes' = processar_dados_transportes(raw_transportes)
    /\ pc' = "processado"
    /\ UNCHANGED <<raw_transportes, raw_descargas, transportes_atualizado,
                   indices_descargas_usados, mapa_chaves, mapa_placa,
                   transportes_para_etapa_2, matches, vars_main, vars_outros>>

\* cruzar_e_atualizar_transportes with an empty source: nothing is matched.
CruzarVazio ==
    /\ pc = "processado"
    /\ df_transportes = <<>> \/ df_descargas = <<>>
    /\ transportes_atualizado' = ComFonte(df_transportes)
    /\ indices_descargas_usados' = {}
    /\ pc' = "fim"
    /\ UNCHANGED <<raw_transportes, raw_descargas, df_transportes, df_descargas,
                   mapa_chaves, mapa_placa, transportes_para_etapa_2, matches,
                   vars_main, vars_outros>>

\* Stage 1: primary index and primary-key loop.
Etapa1 ==
    /\ pc = "processado"
    /\ df_transportes # <<>> /\ df_descargas # <<>>
    /\ LET mapa == ConstruirMapa(df_descargas, "chave_primaria")
           r == Etapa1Loop(ComFonte(df_transportes), mapa, {}, {}, 1)
       IN /\ mapa_chaves' = mapa
          /\ transportes_atualizado' = r.df
          /\ indices_descargas_usados' = r.usados
          /\ matches' = r.log
    /\ pc' = "etapa2"
    /\ UNCHANGED <<raw_transportes, raw_descargas, df_transportes, df_descargas,
                   mapa_placa, transportes_para_etapa_2, vars_main,
                   vars_outros>>

\* Stage 2: plate index and plate-key loop over the rows stage 1 left
\* 'Não Atualizado'; then the function returns.
Etapa2 ==
    /\ pc = "etapa2"
    /\ LET mapa == ConstruirMapa(df_descargas, "chave_placa_fonte_produto")
           para2 == SelectSeq(transportes_atualizado,
                              LAMBDA t : t.fonte_atualizacao = NaoAtualizado)
           r == Etapa2Loop(transportes_atualizado, para2, mapa,
                           indices_descargas_usados, matches, 1)
       IN /\ mapa_placa' = mapa
          /\ transportes_para_etapa_2' = para2
          /\ transportes_atualizado' = r.df
          /\ indices_descargas_usados' = r.usados
          /\ matches' = r.log
    /\ pc' = "fim"
    /\ UNCHANGED <<raw_transportes, raw_descargas, df_transportes, df_descargas,
                   mapa_chaves, vars_main, vars_outros>>

Next == ProcessarDados \/ CruzarVazio \/ Etapa1 \/ Etapa2

Spec == Init /\ [][Next]_vars


(***************************************************************************)
(* main after the matcher: the sheet update and the divergence report.     *)
(***************************************************************************)
\* datetime.now().date(): the day of the run.
hoje == 3

TxtDescarregado == <<"D","e","s","c","a","r","r","e","g","a","d","o">>
TxtDieselBS10 == <<"D","i","e","s","e","l"," ","B"," ","S","1","0">>
gasolina == <<"g","a","s","o","l","i","n","a">>
diesel_ == <<"d","i","e","s","e","l"," ">>

\* Variant that sends every row of the matcher's output to the sheet.
df_updates_todas(final) == final

\* df_updates: the rows of the matcher's output whose fonte_atualizacao was
\* set by a hit.
df_updates(final) ==
    SelectSeq(final, LAMBDA t : t.fonte_atualizacao # NaoAtualizado)

cols_to_update == <<"status", "data_chegada", "data_descarga">>

\* batch_update_data: one cell per row of updates_df and per column of
\* cols_to_update whose value is not NaN (a status is text, never NaN).
cell_updates(updates_df) ==
    {<<updates_df[i].index, cols_to_update[c], updates_df[i][cols_to_update[c]]>> :
        i \in 1..Len(updates_df), c \in 1..Len(cols_to_update)}
    \ {<<updates_df[i].index, cols_to_update[c], NaT>> :
        i \in 1..Len(updates_df), c \in 2..Len(cols_to_update)}

\* Variant that drops nothing.
descargas_nao_usadas_todas(df, usados) == df

\* df_descargas.drop(index=list(indices_usados))
descargas_nao_usadas(df, usados) ==
    SelectSeq(df, LAMBDA r : r.index \notin usados)

\* The raw sheet rows already 'descarregado' with today's unload date.
df_descarregados_hoje(raw) ==
    SelectSeq(raw, LAMBDA r :
        Lower(r.status) = descarregado /\ r.data_descarga = hoje)

chaves_excecao_primaria(raw) ==
    {Chave(r.nfe, r.produto, r.recebedor) : r \in Range(df_descarregados_hoje(raw))}

chaves_excecao_placa(raw) ==
    {Chave(r.cavalo, r.produto, r.recebedor) : r \in Range(df_descarregados_hoje(raw))}

\* filtro_data: no unload date, or unloaded today.
filtro_data(r) == r.data_de_descarga = NaT \/ r.data_de_descarga = hoje

\* The double exception filter: the row's keys are in neither exception set.
filtro_excecao(r, raw) ==
    /\ r.chave_primaria \notin chaves_excecao_primaria(raw)
    /\ r.chave_placa_fonte_produto \notin chaves_excecao_placa(raw)

\* Variant that keeps the gasoline rows only.
filtro_produto_so_gasolina(r) == Contem(gasolina, Lower(r.produto))

\* filtro_produto: the product contains 'gasolina' or 'diesel ' (any case).
filtro_produto(r) ==
    Contem(gasolina, Lower(r.produto)) \/ Contem(diesel_, Lower(r.produto))

\* df_relatorio_final: the three filters applied in turn to the unused rows.
df_relatorio_final(df, usados, raw) ==
    SelectSeq(descargas_nao_usadas(df, usados), LAMBDA r :
        filtro_data(r) /\ filtro_excecao(r, raw) /\ filtro_produto(r))

\* Variant of the handler that logs and raises the exception again.
ErroCriticoRelancado(niveis) ==
    /\ logging_niveis' = logging_niveis \cup niveis \cup {"critical"}
    /\ pc' = "excecao_nao_tratada"

\* The handler at the top of main: the exception is logged as critical and
\* the script leaves through sys.exit(1).
ErroCritico(niveis) ==
    /\ logging_niveis' = logging_niveis \cup niveis \cup {"critical"}
    /\ pc' = "sys_exit_1"

\* One update_status_banner call: the colour and whether the API applied
\* it; a failure is logged as an error inside the method and goes no further.
Banner(cor, ok) == [cor |-> cor, ok |-> ok]

NiveisDeBanners(bs) == IF \E i \in DOMAIN bs : ~bs[i].ok THEN {"error"} ELSE {}

\* batch_update_data catches every Exception of the batch write, so none
\* reaches the `except` of main whatever the outcome of the write.
batch_update_data_levanta(batch_ok) == FALSE

\* main, update section.  An empty matcher input has no fonte_atualizacao
\* column, so selecting df_updates raises KeyError.  With no row to update
\* only the final GREEN banner is set.  Otherwise the banner is set to RED,
\* each row of df_updates is sent to the sheet in one batch (a failure of the
\* batch is logged inside batch_update_data and the run goes on), and the
\* banner is set to GREEN; an exception inside the try sets it to YELLOW and
\* is raised again.
AtualizarPlanilhas ==
    /\ pc = "fim"
    /\ \/ /\ transportes_atualizado = <<>>
          /\ excecao' = "KeyError"
          /\ ErroCritico({})
          /\ UNCHANGED <<celulas_escritas, banners>>
       \/ /\ transportes_atualizado # <<>>
          /\ df_updates(transportes_atualizado) = <<>>
          /\ \E green_ok \in BOOLEAN :
                /\ banners' = <<Banner("GREEN", green_ok)>>
                /\ logging_niveis' = logging_niveis \cup NiveisDeBanners(banners')
          /\ pc' = "relatorio"
          /\ UNCHANGED <<celulas_escritas, excecao>>
       \/ /\ df_updates(transportes_atualizado) # <<>>
          /\ \E red_ok, batch_ok, fim_ok \in BOOLEAN :
                /\ celulas_escritas' =
                       IF batch_ok
                       THEN cell_updates(df_updates(transportes_atualizado))
                       ELSE celulas_escritas
                /\ IF batch_update_data_levanta(batch_ok)
                   THEN /\ banners' = <<Banner("RED", red_ok), Banner("YELLOW", fim_ok)>>
                        /\ excecao' = "APIError"
                        /\ ErroCritico(NiveisDeBanners(banners') \cup {"error"})
                   ELSE /\ banners' = <<Banner("RED", red_ok), Banner("GREEN", fim_ok)>>
                        /\ logging_niveis' =
                               logging_niveis \cup NiveisDeBanners(banners') \cup
                               (IF batch_ok THEN {} ELSE {"error"})
                        /\ pc' = "relatorio"
                        /\ UNCHANGED excecao
    /\ UNCHANGED <<raw_transportes, raw_descargas, df_transportes, df_descargas,
                   transportes_atualizado, indices_descargas_usados, mapa_chaves,
                   mapa_placa, transportes_para_etapa_2, matches, relatorio,
                   vars_outros>>

\* main, report section: skipped when there is no descarga; otherwise the
\* filtered unused rows replace the report sheet.  clear_and_write_dataframe
\* logs a failure and raises it again, which ends at the top handler.
RelatorioDivergencias ==
    /\ pc = "relatorio"
    /\ \/ /\ df_descargas = <<>>
          /\ pc' = "terminado"
          /\ UNCHANGED <<relatorio, logging_niveis, excecao>>
       \/ /\ df_descargas # <<>>
          /\ \E write_ok \in BOOLEAN :
                IF write_ok
                THEN /\ relatorio' =
                            [escrito |-> TRUE,
                             linhas |-> df_relatorio_final(df_descargas,
                                            indices_descargas_usados, raw_transportes)]
                     /\ pc' = "terminado"
                     /\ UNCHANGED <<logging_niveis, excecao>>
                ELSE /\ excecao' = "APIError"
                     /\ ErroCritico({"error"})
                     /\ UNCHANGED relatorio
    /\ UNCHANGED <<raw_transportes, raw_descargas, df_transportes, df_descargas,
                   transportes_atualizado, indices_descargas_usados, mapa_chaves,
                   mapa_placa, transportes_para_etapa_2, matches, celulas_escritas,
                   banners, vars_outros>>

\* Input rows of the complete run: a sheet holds rows in transit (loaded
\* before or after the issue dates) and rows already unloaded, today or on
\* a day not recorded; the DataLake holds a product outside the report too.
TransportesEmTransito ==
    [status : {TxtEmTransito},
     nfe : NfesPlanilha,
     produto : {TxtDieselBS10},
     recebedor : {<<"A","r","u","j","a">>},
     cavalo : CavalosPlanilha,
     data_de_carregamento : {1, 3},
     data_chegada : {NaT},
     data_descarga : {NaT}]

TransportesDescarregados ==
    [status : {TxtDescarregado},
     nfe : NfesPlanilha,
     produto : {TxtDieselBS10},
     recebedor : {<<"A","r","u","j","a">>},
     cavalo : CavalosPlanilha,
     data_de_carregamento : {1},
     data_chegada : {1},
     data_descarga : {NaT, hoje}]

TransportesMain == TransportesEmTransito \cup TransportesDescarregados

DescargasMain ==
    [nota : NotasDataLake,
     produto : {TxtDieselBS10, <<"H","i","d","r","a","t","a","d","o"," ">>},
     Fonte_do_Arquivo : {<<"A","R","U","J","A",".","x","l","s","x">>},
     placa : PlacasDataLake,
     data : {2},
     data_de_descarga : {NaT, 2, hoje}]

InitMain ==
    /\ pc = "inicio"
    /\ \E n \in 1..(MaxLinhas - 1) :
          /\ raw_transportes \in [1..n -> TransportesMain]
          /\ raw_descargas \in SeqsDe(DescargasMain, MaxLinhas - n)
    /\ df_transportes = <<>>
    /\ df_descargas = <<>>
    /\ transportes_atualizado = <<>>
    /\ indices_descargas_usados = {}
    /\ mapa_chaves = <<>>
    /\ mapa_placa = <<>>
    /\ transportes_para_etapa_2 = <<>>
    /\ matches = {}
    /\ celulas_escritas = {}
    /\ relatorio = [escrito |-> FALSE, linhas |-> <<>>]
    /\ logging_niveis = {}
    /\ excecao = "nenhuma"
    /\ banners = <<>>
    /\ OutrosParados

NextMain ==
    \/ ProcessarDados
    \/ CruzarVazio
    \/ Etapa1
    \/ Etapa2
    \/ AtualizarPlanilhas
    \/ RelatorioDivergencias

SpecMain == InitMain /\ [][NextMain]_vars


(***************************************************************************)
(* 'Atualização Transito Drives.py': main's update loop and                *)
(* SharePointClient.update_excel_row with its retry loop.                  *)
(***************************************************************************)
\* Rows of df_match handled in one run.
MaxMatch == 2

\* Variant with a longer retry loop.
MaxTentativasCinco == 3 + 2

\* range(3): attempts of the retry loop for one cell.
MaxTentativas == 3

\* time.sleep arguments, in tenths of a second.
SonoAposSucesso == 5
SonoEntreTentativas == 20

\* The keys of `updates`, in the order of the dict literal.
updates_colunas ==
    <<"nfe", "volume_l", "data_de_carregamento", "horario_de_carregamento", "status">>

bsoft_id == "bsoft"

\* A row of df_match: the workbook and sheet row of the transport, and the
\* invoice number of the Bsoft row merged with it.
LinhasMatch ==
    [file_id : {"transporte", bsoft_id},
     row_num : {2, 3},
     numero : {"123", "124"}]

\* Drive_Sheets.py is not running.
DriveSheetsParado ==
    /\ pc = "parado"
    /\ raw_transportes = <<>>
    /\ raw_descargas = <<>>
    /\ df_transportes = <<>>
    /\ df_descargas = <<>>
    /\ transportes_atualizado = <<>>
    /\ indices_descargas_usados = {}
    /\ mapa_chaves = <<>>
    /\ mapa_placa = <<>>
    /\ transportes_para_etapa_2 = <<>>
    /\ matches = {}
    /\ celulas_escritas = {}
    /\ relatorio = [escrito |-> FALSE, linhas |-> <<>>]
    /\ logging_niveis = {}
    /\ excecao = "nenhuma"
    /\ banners = <<>>

\* The state at the head of step 7: df_match is merged, and nfs_ja_usadas
\* holds the numbers found on the sheets, none of which is in df_match
\* (df_bsoft_sobras leaves them out).
InitTransito ==
    /\ DriveSheetsParado
    /\ OrquestradorParado
    /\ HidratadoParado
    /\ NormalizadorParado
    /\ RodadasParadas
    /\ ProcessoParado
    /\ pc_transito = "atualizacao"
    /\ df_match \in UNION {[1..n -> LinhasMatch] : n \in 0..MaxMatch}
    /\ nfs_ja_usadas \in SUBSET {"900"}
    /\ count = 0
    /\ linha = 1
    /\ coluna = 1
    /\ tentativa = 0
    /\ celula_log = [linha |-> 0, coluna |-> 0, resultados |-> <<>>, sonos |-> <<>>]
    /\ ultima_falha = <<0, 0>>
    /\ log_transito = {}
    /\ df_transporte = <<>>
    /\ df_bsoft = <<>>
    /\ escritas = <<>>

\* `if df_match.empty: return`, else the loop starts.
IniciarAtualizacao ==
    /\ pc_transito = "atualizacao"
    /\ pc_transito' = IF df_match = <<>> THEN "fim" ELSE "loop"
    /\ UNCHANGED <<df_match, nfs_ja_usadas, count, linha, coluna, tentativa,
                   celula_log, ultima_falha, log_transito>>
    /\ UNCHANGED <<df_transporte, df_bsoft, escritas>>
    /\ UNCHANGED <<pc, raw_transportes, raw_descargas, df_transportes, df_descargas,
                   transportes_atualizado, indices_descargas_usados, mapa_chaves,
                   mapa_placa, transportes_para_etapa_2, matches, vars_main, vars_orq,
                   vars_hid, vars_norm, vars_rodadas, vars_proc>>

\* The head of `for _, row in df_match.iterrows()`: the loop ends, or the
\* row is passed over (`continue`), or update_excel_row is entered.
IterarLinha ==
    /\ pc_transito = "loop"
    /\ IF linha > Len(df_match)
       THEN /\ pc_transito' = "fim"
            /\ UNCHANGED <<linha, coluna, tentativa>>
       ELSE LET row == df_match[linha]
            IN IF row.file_id = bsoft_id \/ row.numero \in nfs_ja_usadas
               THEN /\ linha' = linha + 1
                    /\ UNCHANGED <<pc_transito, coluna, tentativa>>
               ELSE /\ pc_transito' = "patch"
                    /\ coluna' = 1
                    /\ tentativa' = 0
                    /\ UNCHANGED linha
    /\ UNCHANGED <<df_match, nfs_ja_usadas, count, celula_log, ultima_falha,
                   log_transito>>
    /\ UNCHANGED <<df_transporte, df_bsoft, escritas>>
    /\ UNCHANGED <<pc, raw_transportes, raw_descargas, df_transportes, df_descargas,
                   transportes_atualizado, indices_descargas_usados, mapa_chaves,
                   mapa_placa, transportes_para_etapa_2, matches, vars_main, vars_orq,
                   vars_hid, vars_norm, vars_rodadas, vars_proc>>

\* celula_log after one more attempt on the cell <<linha, coluna>>.
Registrar(ok, sono) ==
    IF celula_log.linha = linha /\ celula_log.coluna = coluna
    THEN [celula_log EXCEPT !.resultados = Append(@, ok), !.sonos = Append(@, sono)]
    ELSE [linha |-> linha, coluna |-> coluna, resultados |-> <<ok>>, sonos |-> <<sono>>]

\* update_excel_row leaves the cell: the next column, or after the last one
\* back in main, where the number is recorded and the row is counted.
DeixarCelula ==
    /\ tentativa' = 0
    /\ IF coluna < Len(updates_colunas)
       THEN /\ coluna' = coluna + 1
            /\ UNCHANGED <<pc_transito, linha, nfs_ja_usadas, count>>
       ELSE /\ coluna' = 1
            /\ nfs_ja_usadas' = nfs_ja_usadas \cup {df_match[linha].numero}
            /\ count' = count + 1
            /\ linha' = linha + 1
            /\ pc_transito' = "loop"

\* One pass of `for tentativa in range(3)`: _api_patch returns (sleep 0.5 s,
\* break) or raises.  A failure before the last pass is logged as a warning
\* and followed by a sleep of 2 s; on the last pass it is logged as an error.
ApiPatch ==
    /\ pc_transito = "patch"
    /\ \E ok \in BOOLEAN :
          IF ok
          THEN /\ celula_log' = Registrar(TRUE, SonoAposSucesso)
               /\ DeixarCelula
               /\ UNCHANGED <<ultima_falha, log_transito>>
          ELSE IF tentativa < 2
          THEN /\ celula_log' = Registrar(FALSE, SonoEntreTentativas)
               /\ log_transito' = log_transito \cup {"warning"}
               /\ IF tentativa + 1 < MaxTentativas
                  THEN /\ tentativa' = tentativa + 1
                       /\ UNCHANGED <<pc_transito, linha, coluna, nfs_ja_usadas, count>>
                  ELSE DeixarCelula
               /\ UNCHANGED ultima_falha
          ELSE /\ celula_log' = Registrar(FALSE, 0)
               /\ log_transito' = log_transito \cup {"error"}
               /\ IF tentativa + 1 < MaxTentativas
                  THEN /\ tentativa' = tentativa + 1
                       /\ UNCHANGED <<pc_transito, linha, coluna, nfs_ja_usadas, count,
                                      ultima_falha>>
                  ELSE /\ ultima_falha' = <<linha, coluna>>
                       /\ DeixarCelula
    /\ UNCHANGED <<df_match, df_transporte, df_bsoft, escritas>>
    /\ UNCHANGED <<pc, raw_transportes, raw_descargas, df_transportes, df_descargas,
                   transportes_atualizado, indices_descargas_usados, mapa_chaves,
                   mapa_placa, transportes_para_etapa_2, matches, vars_main, vars_orq,
                   vars_hid, vars_norm, vars_rodadas, vars_proc>>

NextTransito == IniciarAtualizacao \/ IterarLinha \/ ApiPatch

SpecTransito == InitTransito /\ [][NextTransito]_vars


(***************************************************************************)
(* orquestrador.py: executar_pipeline and the scheduler loop.              *)
(***************************************************************************)
\* Calls of executar_pipeline followed in one behaviour.
MaxExecucoes == 2

\* Variant of the handlers with `break` in place of `continue`.
AposFalhaAborta(i) == Len(scripts_para_rodar) + 1

\* `continue` in the three except clauses: the loop goes to the next script.
AposFalha(i) == i + 1

\* Variant that does not wait for the child (Popen without wait).
subprocess_run_retornou_sempre == TRUE

\* subprocess.run returns, or raises CalledProcessError, only when the child
\* has terminated; until then the loop does not advance.
subprocess_run_retornou == subprocessos = 0

InitOrquestrador ==
    /\ DriveSheetsParado
    /\ TransitoParado
    /\ HidratadoParado
    /\ NormalizadorParado
    /\ RodadasParadas
    /\ ProcessoParado
    /\ pc_orq = "inicio"
    /\ execucoes = 0
    /\ script = 1
    /\ subprocessos = 0
    /\ tentados = NenhumTentado
    /\ ultimo_resultado = "nenhum"
    /\ houve_falha = FALSE

\* executar_pipeline is entered: the call of __main__, or a due job of
\* schedule.run_pending() in the `while True` loop.
IniciarPipeline ==
    /\ pc_orq \in {"inicio", "agendador"}
    /\ execucoes < MaxExecucoes
    /\ pc_orq' = "pipeline"
    /\ script' = 1
    /\ tentados' = NenhumTentado
    /\ houve_falha' = FALSE
    /\ UNCHANGED <<execucoes, subprocessos, ultimo_resultado>>
    /\ UNCHANGED <<pc, raw_transportes, raw_descargas, df_transportes, df_descargas,
                   transportes_atualizado, indices_descargas_usados, mapa_chaves,
                   mapa_placa, transportes_para_etapa_2, matches, vars_main,
                   vars_transito, vars_hid, vars_norm, vars_rodadas, vars_proc>>

\* subprocess.run(['python', script], check=True) is called for the script
\* under the loop: the child starts, or the call raises FileNotFoundError or
\* another exception, which is logged before `continue`.
LancarScript ==
    /\ pc_orq = "pipeline"
    /\ script <= Len(scripts_para_rodar)
    /\ subprocess_run_retornou
    /\ tentados' = [tentados EXCEPT ![script] = @ + 1]
    /\ \E r \in {"iniciado", "FileNotFoundError", "Exception"} :
          IF r = "iniciado"
          THEN /\ subprocessos' = subprocessos + 1
               /\ UNCHANGED <<script, ultimo_resultado, houve_falha>>
          ELSE /\ ultimo_resultado' = r
               /\ houve_falha' = TRUE
               /\ script' = AposFalha(script)
               /\ UNCHANGED subprocessos
    /\ UNCHANGED <<pc_orq, execucoes>>
    /\ UNCHANGED <<pc, raw_transportes, raw_descargas, df_transportes, df_descargas,
                   transportes_atualizado, indices_descargas_usados, mapa_chaves,
                   mapa_placa, transportes_para_etapa_2, matches, vars_main,
                   vars_transito, vars_hid, vars_norm, vars_rodadas, vars_proc>>

\* The child terminates: exit code 0 and the loop goes on, or a non-zero
\* code, which check=True turns into CalledProcessError (logged, `continue`).
TerminarScript ==
    /\ pc_orq = "pipeline"
    /\ subprocessos > 0
    /\ subprocessos' = subprocessos - 1
    /\ \E returncode \in {0, 1} :
          IF returncode = 0
          THEN /\ ultimo_resultado' = "sucesso"
               /\ script' = script + 1
               /\ UNCHANGED houve_falha
          ELSE /\ ultimo_resultado' = "CalledProcessError"
               /\ houve_falha' = TRUE
               /\ script' = AposFalha(script)
    /\ UNCHANGED <<pc_orq, execucoes, tentados>>
    /\ UNCHANGED <<pc, raw_transportes, raw_descargas, df_transportes, df_descargas,
                   transportes_atualizado, indices_descargas_usados, mapa_chaves,
                   mapa_placa, transportes_para_etapa_2, matches, vars_main,
                   vars_transito, vars_hid, vars_norm, vars_rodadas, vars_proc>>

\* The for loop is exhausted: executar_pipeline returns to the scheduler loop.
FimPipeline ==
    /\ pc_orq = "pipeline"
    /\ script > Len(scripts_para_rodar)
    /\ subprocess_run_retornou
    /\ pc_orq' = "agendador"
    /\ execucoes' = execucoes + 1
    /\ UNCHANGED <<script, subprocessos, tentados, ultimo_resultado, houve_falha>>
    /\ UNCHANGED <<pc, raw_transportes, raw_descargas, df_transportes, df_descargas,
                   transportes_atualizado, indices_descargas_usados, mapa_chaves,
                   mapa_placa, transportes_para_etapa_2, matches, vars_main,
                   vars_transito, vars_hid, vars_norm, vars_rodadas, vars_proc>>

NextOrquestrador == IniciarPipeline \/ LancarScript \/ TerminarScript \/ FimPipeline

SpecOrquestrador == InitOrquestrador /\ [][NextOrquestrador]_vars


(***************************************************************************)
(* 'Atualização Em Transito - Hidratado.py': DataProcessor._normalizar_texto *)
(* and the reconciliation of one group in main.                            *)
(***************************************************************************)
\* Planned legs of a group, and invoices found for it.
MaxPernas == 2
MaxNotas == 2

\* str.upper() on one character.
ParaMaiuscula ==
    [c \in Range(Minusculas) \cup {"â"} |->
        IF c = "â" THEN "Â"
        ELSE Maiusculas[CHOOSE i \in 1..Len(Minusculas) : Minusculas[i] = c]]

UpperChar(c) == IF c \in DOMAIN ParaMaiuscula THEN ParaMaiuscula[c] ELSE c

Upper(s) == [i \in 1..Len(s) |-> UpperChar(s[i])]

\* The characters of [A-Z0-9].
AlfaNumMaiusculo == Range(Maiusculas) \cup Digitos

\* normalize('NFKD').encode('ascii', 'ignore').decode('utf-8'): an accented
\* letter is split into its base letter and a combining mark, which is
\* dropped with every other non-ASCII character.
SemAcento(c) == IF c = "â" THEN "a" ELSE IF c = "Â" THEN "A" ELSE c

RemoverAcentos(s) == [i \in 1..Len(s) |-> SemAcento(s[i])]

\* Variant that leaves the case of the letters alone.
normalizar_texto_sem_upper(s) == Strip(RemoverAcentos(Str(s)))

\* DataProcessor._normalizar_texto: accents removed, strip(), upper().
normalizar_texto(s) == Upper(Strip(RemoverAcentos(Str(s))))

TxtHidratado == <<"H","i","d","r","a","t","a","d","o">>
TxtHidratadoEspaco == <<"H","i","d","r","a","t","a","d","o"," ">>
TxtHIDRATADO == <<"H","I","D","R","A","T","A","D","O">>
TxtAnidro == <<"A","n","i","d","r","o">>

\* Config.PRODUTOS_BIO
PRODUTOS_BIO == <<TxtHidratado, TxtHidratadoEspaco>>

EM_TRANSITO == "EM TRÂNSITO"
PMM_nao_Utilizada == "PMM não Utilizada"

\* A leg no update_cell call was made for.
SemPedido == [status |-> "", nfe |-> ""]

\* get_updates_from_faturado, the cells the properties look at.
get_updates_from_faturado(fat_row) == [status |-> EM_TRANSITO, nfe |-> fat_row.numero]

NotasQive == [numero : {"123", "124"}, data_emissao_faturado : {1, 2}]

\* sort_values(by='data_emissao_faturado'): the rows in ascending date order;
\* the order of rows with equal dates is left to the sort.
Ordenacoes(rows) ==
    {l \in [1..Len(rows) -> Range(rows)] :
        /\ \A r \in Range(rows) :
              Cardinality({i \in 1..Len(rows) : l[i] = r}) =
              Cardinality({i \in 1..Len(rows) : rows[i] = r})
        /\ \A i \in 1..(Len(rows) - 1) :
              l[i].data_emissao_faturado <= l[i + 1].data_emissao_faturado}

Min(a, b) == IF a <= b THEN a ELSE b

\* The branch 'lógica BIO (N vs M)': the first min(N, M) legs take the
\* invoice at the same position, the other legs are marked.
PedidosBio(rows, lista) ==
    [i \in 1..Len(rows) |->
        IF i <= Min(Len(rows), Len(lista))
        THEN get_updates_from_faturado(lista[i])
        ELSE [status |-> PMM_nao_Utilizada, nfe |-> ""]]

\* The rows appended by the same branch: one per invoice beyond the legs.
NovasLinhasBio(rows, lista) ==
    IF Len(lista) > Len(rows)
    THEN [j \in 1..(Len(lista) - Len(rows)) |-> lista[Len(rows) + j].numero]
    ELSE <<>>

\* The branch 'lógica simples (1x1)': the first leg takes the first invoice.
PedidosSimples(rows, lista) ==
    [i \in 1..Len(rows) |->
        IF i = 1 THEN get_updates_from_faturado(lista[1]) ELSE SemPedido]

\* Invoices of the product of the group issued for another vehicle.
NotasDeOutraPlaca == [numero : {"124", "125"}, data_emissao_faturado : {2}]

\* The state of main's loop body once the invoices of the group are found:
\* the legs of one group, all of one product, a non-empty list of invoices
\* found by plate, and the pool they were found in.
InitHidratado ==
    /\ DriveSheetsParado
    /\ TransitoParado
    /\ OrquestradorParado
    /\ NormalizadorParado
    /\ RodadasParadas
    /\ ProcessoParado
    /\ pc_hid = "candidatos"
    /\ \E n \in 1..MaxPernas :
       \E produto \in {TxtHidratado, TxtHidratadoEspaco, TxtHIDRATADO, TxtAnidro} :
          sp_rows = [i \in 1..n |-> [produto |-> produto, row_index |-> i + 1]]
    /\ faturado_rows \in SeqsDe(NotasQive, MaxNotas)
    /\ \E outras \in {<<>>} \cup {<<r>> : r \in NotasDeOutraPlaca} :
          df_faturados = faturado_rows \o outras
    /\ faturado_rows_list = <<>>
    /\ pedidos_celulas = <<>>
    /\ linhas_adicionadas = <<>>

\* faturado_rows.sort_values(...); faturado_rows_list = to_dict('records')
OrdenarNotas ==
    /\ pc_hid = "candidatos"
    /\ faturado_rows_list' \in Ordenacoes(faturado_rows)
    /\ pc_hid' = "ordenado"
    /\ UNCHANGED <<sp_rows, faturado_rows, pedidos_celulas, linhas_adicionadas,
                   df_faturados>>
    /\ UNCHANGED <<pc, raw_transportes, raw_descargas, df_transportes, df_descargas,
                   transportes_atualizado, indices_descargas_usados, mapa_chaves,
                   mapa_placa, transportes_para_etapa_2, matches, vars_main,
                   vars_transito, vars_orq, vars_norm, vars_rodadas, vars_proc>>

\* nfs_usadas = [str(fr['número']) for fr in faturado_rows_list];
\* df_faturados = df_faturados[~df_faturados['número'].isin(nfs_usadas)]
SemNfsUsadas(pool, lista) ==
    SelectSeq(pool, LAMBDA r : r.numero \notin {fr.numero : fr \in Range(lista)})

\* The update of the group: the product of the group is the normalized
\* product of its first leg, and the branch is chosen by its membership in
\* Config.PRODUTOS_BIO; then the numbers of the list leave the pool.
AtualizarGrupo ==
    /\ pc_hid = "ordenado"
    /\ LET produto_grupo == normalizar_texto(sp_rows[1].produto)
       IN IF produto_grupo \in Range(PRODUTOS_BIO)
          THEN /\ pedidos_celulas' = PedidosBio(sp_rows, faturado_rows_list)
               /\ linhas_adicionadas' = NovasLinhasBio(sp_rows, faturado_rows_list)
          ELSE /\ pedidos_celulas' = PedidosSimples(sp_rows, faturado_rows_list)
               /\ linhas_adicionadas' = <<>>
    /\ df_faturados' = SemNfsUsadas(df_faturados, faturado_rows_list)
    /\ pc_hid' = "atualizado"
    /\ UNCHANGED <<sp_rows, faturado_rows, faturado_rows_list>>
    /\ UNCHANGED <<pc, raw_transportes, raw_descargas, df_transportes, df_descargas,
                   transportes_atualizado, indices_descargas_usados, mapa_chaves,
                   mapa_placa, transportes_para_etapa_2, matches, vars_main,
                   vars_transito, vars_orq, vars_norm, vars_rodadas, vars_proc>>

NextHidratado == OrdenarNotas \/ AtualizarGrupo

SpecHidratado == InitHidratado /\ [][NextHidratado]_vars


(***************************************************************************)
(* The normalizers as functions: _normalizar_texto_para_chave and          *)
(* DataProcessor._normalizar_texto applied to raw texts.                   *)
(***************************************************************************)
\* Length of the raw texts drawn from the alphabet.
MaxLen == 3

\* Characters of the raw texts: letters in both cases, a digit, the blank,
\* a punctuation mark and an accented letter.
AlfabetoBruto == {"h", "H", "1", " ", "-", "â"}

TextosBrutos == UNION {[1..n -> AlfabetoBruto] : n \in 0..MaxLen}

\* The texts that differ from `a` only in the case of letters.
VariantesDeCaixa(a) ==
    {[i \in 1..Len(a) |-> IF f[i] THEN UpperChar(a[i]) ELSE LowerChar(a[i])] :
        f \in [1..Len(a) -> BOOLEAN]}

\* ... and in blanks around it.
Variantes(a) ==
    {e \o t \o d : e \in {<<>>, <<" ">>}, t \in VariantesDeCaixa(a), d \in {<<>>, <<" ">>}}

\* The product names of the sheets and of the DataLake.
ExemplosHidratado == {TxtHidratadoEspaco, TxtHIDRATADO, Lower(TxtHidratado)}

\* A field that is missing: a null value.
CelulasNulas == {NaN, None}

InitNormalizador ==
    /\ DriveSheetsParado
    /\ TransitoParado
    /\ OrquestradorParado
    /\ HidratadoParado
    /\ RodadasParadas
    /\ ProcessoParado
    /\ pc_norm = "entrada"
    /\ \/ entradas \in ExemplosHidratado \X ExemplosHidratado
       \/ \E a \in TextosBrutos : \E b \in Variantes(a) : entradas = <<a, b>>
       \/ entradas \in CelulasNulas \X CelulasNulas
    /\ chaves = <<>>
    /\ textos = <<>>

\* Both normalizers are applied to both texts.
Normalizar ==
    /\ pc_norm = "entrada"
    /\ chaves' = <<normalizar_texto_para_chave(entradas[1]),
                   normalizar_texto_para_chave(entradas[2])>>
    /\ textos' = <<normalizar_texto(entradas[1]), normalizar_texto(entradas[2])>>
    /\ pc_norm' = "normalizado"
    /\ UNCHANGED entradas
    /\ UNCHANGED <<pc, raw_transportes, raw_descargas, df_transportes, df_descargas,
                   transportes_atualizado, indices_descargas_usados, mapa_chaves,
                   mapa_placa, transportes_para_etapa_2, matches, vars_main,
                   vars_transito, vars_orq, vars_hid, vars_rodadas, vars_proc>>

NextNormalizador == Normalizar

SpecNormalizador == InitNormalizador /\ [][NextNormalizador]_vars


(***************************************************************************)
(* The matcher on sheets with blank cells: transport rows whose nfe cell   *)
(* is empty (the Google sheet gives '' for a blank cell) and DataLake rows *)
(* whose nota cell is blank text or a null.                                *)
(***************************************************************************)
TransportesSemNfe ==
    [status : {TxtEmTransito, TxtAguardandoDescarga},
     nfe : {<<>>, <<"1","2","3">>},
     produto : {<<"H","I","D","R","A","T","A","D","O">>},
     recebedor : {<<"A","r","u","j","a">>},
     cavalo : CavalosPlanilha,
     data_de_carregamento : {1},
     data_chegada : {NaT},
     data_descarga : {NaT}]

DescargasSemNota ==
    [nota : {<<" ">>, NaN, <<"1","2","3">>},
     produto : {<<"H","i","d","r","a","t","a","d","o"," ">>},
     Fonte_do_Arquivo : {<<"A","R","U","J","A",".","x","l","s","x">>},
     placa : PlacasDataLake,
     data : {2, NaT},
     data_de_descarga : DatasDescarga \cup {NaT}]

InitNfeVazia ==
    /\ pc = "inicio"
    /\ \E n \in 1..(MaxLinhas - 1) :
          /\ raw_transportes \in [1..n -> TransportesSemNfe]
          /\ raw_descargas \in SeqsDe(DescargasSemNota, MaxLinhas - n)
    /\ df_transportes = <<>>
    /\ df_descargas = <<>>
    /\ transportes_atualizado = <<>>
    /\ indices_descargas_usados = {}
    /\ mapa_chaves = <<>>
    /\ mapa_placa = <<>>
    /\ transportes_para_etapa_2 = <<>>
    /\ matches = {}
    /\ celulas_escritas = {}
    /\ relatorio = [escrito |-> FALSE, linhas |-> <<>>]
    /\ logging_niveis = {}
    /\ excecao = "nenhuma"
    /\ banners = <<>>
    /\ OutrosParados

SpecNfeVazia == InitNfeVazia /\ [][Next]_vars


(***************************************************************************)
(* 'Atualização Transito Drives.py': main from the reading of the          *)
(* workbooks to the end of the update loop, one update_excel_row call per   *)
(* step.                                                                   *)
(***************************************************************************)
\* Rows of the transport sheet and of the Bsoft sheet read in one run.
MaxTransporte == 2
MaxBsoft == 2

\* date.today() - timedelta(days=1)
ontem == hoje - 1

\* DataProcessor.normalizar_txt: the same chain as _normalizar_texto.
normalizar_txt(x) == normalizar_texto(x)

\* DataProcessor.limpar_placa: upper case, then only [A-Z0-9] is kept.
limpar_placa(x) == SelectSeq(Upper(Str(x)), LAMBDA c : c \in AlfaNumMaiusculo)

\* str.replace(r'\.0$', '')
SemPontoZero(s) ==
    IF Len(s) >= 2 /\ SubSeq(s, Len(s) - 1, Len(s)) = <<".", "0">>
    THEN SubSeq(s, 1, Len(s) - 2)
    ELSE s

\* DataProcessor.limpar_nf: astype(str), the trailing '.0' removed, strip,
\* and the texts 'nan', 'None' and 'NAN' replaced by ''.
limpar_nf(x) ==
    LET t == Strip(SemPontoZero(Str(x)))
    IN IF t \in {<<"n","a","n">>, <<"N","o","n","e">>, <<"N","A","N">>} THEN <<>> ELSE t

\* DataProcessor.preparar_transporte: the rows loaded before yesterday are
\* dropped; produto_norm, the cleaned nfe and chave_dedup are added.
preparar_transporte(df) ==
    LET recentes == SelectSeq(df, LAMBDA r :
                        r.data_de_carregamento = NaT \/ r.data_de_carregamento >= ontem)
    IN [i \in 1..Len(recentes) |->
          LET r == recentes[i]
          IN [excel_row_num |-> r.excel_row_num,
              status |-> r.status,
              cavalo |-> r.cavalo,
              data_prev_temp |-> r.data_prev_carregamento,
              produto_norm |-> normalizar_txt(r.produto),
              nfe |-> limpar_nf(r.nfe),
              chave_dedup |-> normalizar_txt(r.produto) \o Sublinhado \o limpar_nf(r.nfe)]]

\* DataProcessor.preparar_bsoft: the invoices issued before yesterday are
\* dropped; the number is cleaned and the two keys are added.
preparar_bsoft(df) ==
    LET recentes == SelectSeq(df, LAMBDA r :
                        r.data_emissao # NaT /\ r.data_emissao >= ontem)
    IN [i \in 1..Len(recentes) |->
          LET r == recentes[i]
          IN [numero |-> limpar_nf(r.numero),
              bsoft_data |-> r.data_emissao,
              produto_norm |-> normalizar_txt(r.produto),
              chave_dedup |-> normalizar_txt(r.produto) \o Sublinhado \o limpar_nf(r.numero),
              chave_match_bsoft |->
                  normalizar_txt(r.produto) \o Sublinhado \o limpar_placa(r.placa1)]]

\* Step 2: set(df_transporte['nfe'].loc[lambda x: x != ''])
nfs_do_transporte(transp) == {r.nfe : r \in Range(transp)} \ {<<>>}

\* Step 4: the Bsoft rows whose chave_dedup and number are on no sheet row.
df_bsoft_sobras(bsoft, transp) ==
    SelectSeq(bsoft, LAMBDA b :
        /\ b.chave_dedup \notin {r.chave_dedup : r \in Range(transp)}
        /\ b.numero \notin nfs_do_transporte(transp))

TxtPROGRAMADO == <<"P","R","O","G","R","A","M","A","D","O">>

\* sort_values(by=['__data_prev_temp', '__excel_row_num']): NaT goes last.
AntesDe(a, b) ==
    LET da == a.data_prev_temp
        db == b.data_prev_temp
    IN \/ da # NaT /\ db = NaT
       \/ da # NaT /\ db # NaT /\ da < db
       \/ da = db /\ a.excel_row_num < b.excel_row_num

\* drop_duplicates(subset=['chave_match_transp'], keep='first')
RECURSIVE PrimeiroDeCadaChave(_, _, _)
PrimeiroDeCadaChave(df, vistas, k) ==
    IF k > Len(df) THEN <<>>
    ELSE IF df[k].chave_match_transp \in vistas
    THEN PrimeiroDeCadaChave(df, vistas, k + 1)
    ELSE <<df[k]>> \o PrimeiroDeCadaChave(df, vistas \cup {df[k].chave_match_transp}, k + 1)

\* Step 5: the rows in status PROGRAMADO without an invoice number, sorted,
\* one per match key.
df_programados_unicos(transp) ==
    LET programados == SelectSeq(transp, LAMBDA r :
                           normalizar_txt(r.status) = TxtPROGRAMADO /\ r.nfe = <<>>)
        com_chave == [i \in 1..Len(programados) |->
                         [excel_row_num |-> programados[i].excel_row_num,
                          data_prev_temp |-> programados[i].data_prev_temp,
                          chave_match_transp |->
                              programados[i].produto_norm \o Sublinhado \o
                              limpar_placa(programados[i].cavalo)]]
    IN PrimeiroDeCadaChave(SortSeq(com_chave, AntesDe), {}, 1)

\* Step 6: pd.merge(how='inner'): for every left row, in order, the right
\* rows with its key, in their order.
RECURSIVE Mesclar(_, _, _)
Mesclar(esq, dir, k) ==
    IF k > Len(esq) THEN <<>>
    ELSE LET pares == SelectSeq(dir, LAMBDA b :
                          b.chave_match_bsoft = esq[k].chave_match_transp)
         IN [i \in 1..Len(pares) |->
                [file_id |-> "transporte",
                 row_num |-> esq[k].excel_row_num,
                 numero |-> pares[i].numero,
                 bsoft_data |-> pares[i].bsoft_data]]
            \o Mesclar(esq, dir, k + 1)

\* The rows of a transport sheet (a blank cell is read as ''): a planned row
\* without invoice, and rows in transit that carry the number 123 (read as
\* a float), loaded today or before yesterday.
LinhasTransporte ==
    [status : {TxtProgramado},
     nfe : {<<>>},
     produto : {TxtHidratadoEspaco},
     cavalo : {<<"a","b","-","1">>},
     data_de_carregamento : {NaT},
     data_prev_carregamento : {1, 2}]
    \cup
    [status : {TxtEmTransito},
     nfe : {<<"1","2","3",".","0">>},
     produto : {TxtHidratadoEspaco},
     cavalo : {<<"a","b","-","1">>},
     data_de_carregamento : {1, hoje},
     data_prev_carregamento : {1}]

\* The rows of the Bsoft sheet: invoices issued today.
LinhasBsoft ==
    [numero : {<<"1","2","3">>, <<"1","2","4">>},
     produto : {TxtHIDRATADO},
     placa1 : {<<"A","B","1">>, <<"X","Y","9">>},
     data_emissao : {hoje}]

\* read_excel: the sheet rows get their row number (the header is row 1).
ComNumeroDeLinha(rows) ==
    [i \in 1..Len(rows) |->
        [c \in (DOMAIN rows[i]) \cup {"excel_row_num"} |->
            IF c = "excel_row_num" THEN i + 1 ELSE rows[i][c]]]

InitTransitoMain ==
    /\ DriveSheetsParado
    /\ OrquestradorParado
    /\ HidratadoParado
    /\ NormalizadorParado
    /\ RodadasParadas
    /\ ProcessoParado
    /\ pc_transito = "leitura"
    /\ \E rows \in SeqsDe(LinhasTransporte, MaxTransporte) :
          df_transporte = ComNumeroDeLinha(rows)
    /\ df_bsoft \in UNION {[1..n -> LinhasBsoft] : n \in 0..MaxBsoft}
    /\ df_match = <<>>
    /\ nfs_ja_usadas = {}
    /\ count = 0
    /\ linha = 1
    /\ coluna = 1
    /\ tentativa = 0
    /\ celula_log = [linha |-> 0, coluna |-> 0, resultados |-> <<>>, sonos |-> <<>>]
    /\ ultima_falha = <<0, 0>>
    /\ log_transito = {}
    /\ escritas = <<>>

\* Steps 1 to 6 of main: both sheets are prepared, the numbers of the sheet
\* are blocked, and the planned rows are merged with the Bsoft rows left.
PrepararEMesclar ==
    /\ pc_transito = "leitura"
    /\ LET transp == preparar_transporte(df_transporte)
           bsoft == preparar_bsoft(df_bsoft)
       IN IF bsoft = <<>>
          THEN /\ pc_transito' = "fim"
               /\ nfs_ja_usadas' = nfs_do_transporte(transp)
               /\ UNCHANGED df_match
          ELSE /\ pc_transito' = "atualizacao"
               /\ nfs_ja_usadas' = nfs_do_transporte(transp)
               /\ df_match' = Mesclar(df_programados_unicos(transp),
                                      df_bsoft_sobras(bsoft, transp), 1)
    /\ UNCHANGED <<count, linha, coluna, tentativa, celula_log, ultima_falha,
                   log_transito, df_transporte, df_bsoft, escritas>>
    /\ UNCHANGED <<pc, raw_transportes, raw_descargas, df_transportes, df_descargas,
                   transportes_atualizado, indices_descargas_usados, mapa_chaves,
                   mapa_placa, transportes_para_etapa_2, matches, vars_main, vars_orq,
                   vars_hid, vars_norm, vars_rodadas, vars_proc>>

\* One pass of `for _, row in df_match.iterrows()`: the row is passed over,
\* or update_excel_row is called (each cell is patched or given up after the
\* retries), the number is blocked and the row is counted.
AtualizarLinha ==
    /\ pc_transito = "loop"
    /\ IF linha > Len(df_match)
       THEN /\ pc_transito' = "fim"
            /\ UNCHANGED <<linha, nfs_ja_usadas, count, escritas, log_transito>>
       ELSE LET row == df_match[linha]
            IN IF row.file_id = bsoft_id \/ row.numero \in nfs_ja_usadas
               THEN /\ linha' = linha + 1
                    /\ UNCHANGED <<pc_transito, nfs_ja_usadas, count, escritas,
                                   log_transito>>
               ELSE \E feitas \in SUBSET {"nfe", "status"} :
                       /\ escritas' = Append(escritas,
                                         [row_num |-> row.row_num,
                                          nfe |-> row.numero,
                                          feitas |-> feitas])
                       /\ log_transito' =
                              IF feitas = {"nfe", "status"} THEN log_transito
                              ELSE log_transito \cup {"warning", "error"}
                       /\ nfs_ja_usadas' = nfs_ja_usadas \cup {row.numero}
                       /\ count' = count + 1
                       /\ linha' = linha + 1
                       /\ UNCHANGED pc_transito
    /\ UNCHANGED <<df_match, coluna, tentativa, celula_log, ultima_falha,
                   df_transporte, df_bsoft>>
    /\ UNCHANGED <<pc, raw_transportes, raw_descargas, df_transportes, df_descargas,
                   transportes_atualizado, indices_descargas_usados, mapa_chaves,
                   mapa_placa, transportes_para_etapa_2, matches, vars_main, vars_orq,
                   vars_hid, vars_norm, vars_rodadas, vars_proc>>

NextTransitoMain == PrepararEMesclar \/ IniciarAtualizacao \/ AtualizarLinha

SpecTransitoMain == InitTransitoMain /\ [][NextTransitoMain]_vars


(***************************************************************************)
(* Runs of the scripts one after the other on one transport sheet: the     *)
(* Transito script moves planned rows to 'EM TRÂNSITO', the matcher moves  *)
(* rows in transit on.  Each step is one complete run; the sheet is the    *)
(* only state that passes from a run to the next.                          *)
(***************************************************************************)
\* Runs followed in one behaviour.
MaxRodadas == 3

TxtEM_TRANSITO == <<"E","M"," ","T","R","Â","N","S","I","T","O">>

\* The rows of the sheet before the first run: planned without invoice, in
\* transit with invoice 123, or unloaded.
LinhasDaPlanilha ==
    [status : {TxtProgramado},
     nfe : {<<>>},
     produto : {TxtHIDRATADO},
     recebedor : {<<"A","r","u","j","a">>},
     cavalo : CavalosPlanilha,
     data_de_carregamento : {NaT},
     data_prev_carregamento : {1},
     data_chegada : {NaT},
     data_descarga : {NaT}]
    \cup
    [status : {TxtEmTransito, TxtDescarregado},
     nfe : NfesPlanilha,
     produto : {TxtHIDRATADO},
     recebedor : {<<"A","r","u","j","a">>},
     cavalo : CavalosPlanilha,
     data_de_carregamento : {2},
     data_prev_carregamento : {1},
     data_chegada : {NaT},
     data_descarga : {NaT}]

\* The DataLake rows read by a run of the matcher.
DescargasDaRodada ==
    [nota : NotasDataLake,
     produto : {TxtHidratadoEspaco},
     Fonte_do_Arquivo : {<<"A","R","U","J","A",".","x","l","s","x">>},
     placa : CavalosPlanilha,
     data : {2},
     data_de_descarga : {NaT, hoje}]

\* The Bsoft rows read by a run of the Transito script.
BsoftDaRodada ==
    [numero : NotasDataLake,
     produto : {TxtHIDRATADO},
     placa1 : CavalosPlanilha,
     data_emissao : {hoje}]

\* The cells a complete run of the matcher sends to the sheet: both sources
\* are processed, the two stages run, and the rows hit give the batch.  With
\* an empty matcher input the run ends in the KeyError before any write.
CelulasDoMatcher(sheet, descargas) ==
    LET dd == processar_dados_descargas(descargas)
        dt == processar_dados_transportes(sheet)
    IN IF dt = <<>> \/ dd = <<>> THEN {}
       ELSE LET e1 == Etapa1Loop(ComFonte(dt), ConstruirMapa(dd, "chave_primaria"),
                                 {}, {}, 1)
                para2 == SelectSeq(e1.df, LAMBDA t : t.fonte_atualizacao = NaoAtualizado)
                e2 == Etapa2Loop(e1.df, para2,
                                 ConstruirMapa(dd, "chave_placa_fonte_produto"),
                                 e1.usados, e1.log, 1)
            IN cell_updates(df_updates(e2.df))

\* sheet.update_cells: the sheet with the cells of the batch written.
ComCelulas(sheet, cells) ==
    [i \in 1..Len(sheet) |->
        [c \in DOMAIN sheet[i] |->
            IF \E cell \in cells : cell[1] = i /\ cell[2] = c
            THEN (CHOOSE cell \in cells : cell[1] = i /\ cell[2] = c)[3]
            ELSE sheet[i][c]]]

\* update_excel_row on the sheet: the cells of `cols` of the row take the
\* values of `updates`, the other cells were given up.  bsoft_data is written
\* as dd/mm/YYYY text and read back day first, which gives the day again.
ComLinhaEscrita(sheet, row, cols) ==
    [i \in 1..Len(sheet) |->
        IF i + 1 # row.row_num THEN sheet[i]
        ELSE [c \in DOMAIN sheet[i] |->
                IF c \notin cols THEN sheet[i][c]
                ELSE IF c = "nfe" THEN row.numero
                ELSE IF c = "data_de_carregamento" THEN row.bsoft_data
                ELSE TxtEM_TRANSITO]]


\* The cells of `updates` that are columns of the sheet of the model.
ColunasDoUpdate == {"nfe", "data_de_carregamento", "status"}

\* Step 7 of main on the sheet: feitas[k] holds the cells of row k that the
\* API took.
RECURSIVE TransitoLoop(_, _, _, _, _)
TransitoLoop(sheet, dfm, usadas, feitas, k) ==
    IF k > Len(dfm) THEN sheet
    ELSE IF dfm[k].file_id = bsoft_id \/ dfm[k].numero \in usadas
    THEN TransitoLoop(sheet, dfm, usadas, feitas, k + 1)
    ELSE TransitoLoop(ComLinhaEscrita(sheet, dfm[k], feitas[k]), dfm,
                      usadas \cup {dfm[k].numero}, feitas, k + 1)

\* df_match of a complete run of the Transito script on the sheet.
MatchDaRodada(sheet, bsoft) ==
    LET transp == preparar_transporte(ComNumeroDeLinha(sheet))
        b == preparar_bsoft(bsoft)
    IN IF b = <<>> THEN <<>>
       ELSE Mesclar(df_programados_unicos(transp), df_bsoft_sobras(b, transp), 1)

InitRodadas ==
    /\ DriveSheetsParado
    /\ TransitoParado
    /\ OrquestradorParado
    /\ HidratadoParado
    /\ NormalizadorParado
    /\ ProcessoParado
    /\ \E sheet \in SeqsDe(LinhasDaPlanilha, MaxTransporte) : historico = <<sheet>>

\* One run of the matcher script: the sheet is read, matched against the
\* DataLake rows of the day, and the batch is written or fails as a whole.
RodarMatcher ==
    /\ historico # <<>>
    /\ Len(historico) <= MaxRodadas
    /\ \E descargas \in SeqsDe(DescargasDaRodada, 1), batch_ok \in BOOLEAN :
          LET sheet == historico[Len(historico)]
          IN historico' = Append(historico,
                 IF batch_ok THEN ComCelulas(sheet, CelulasDoMatcher(sheet, descargas))
                 ELSE sheet)
    /\ UNCHANGED <<pc, raw_transportes, raw_descargas, df_transportes, df_descargas,
                   transportes_atualizado, indices_descargas_usados, mapa_chaves,
                   mapa_placa, transportes_para_etapa_2, matches, vars_main,
                   vars_transito, vars_orq, vars_hid, vars_norm, vars_proc>>

\* One run of the Transito script: the sheet and the Bsoft rows are read
\* and merged, and every row of df_match not passed over is written, each
\* cell on its own.
RodarTransito ==
    /\ historico # <<>>
    /\ Len(historico) <= MaxRodadas
    /\ \E bsoft \in SeqsDe(BsoftDaRodada, 1) :
          LET sheet == historico[Len(historico)]
              dfm == MatchDaRodada(sheet, bsoft)
          IN \E feitas \in [1..Len(dfm) -> SUBSET ColunasDoUpdate] :
                historico' = Append(historico,
                    TransitoLoop(sheet, dfm,
                        nfs_do_transporte(preparar_transporte(ComNumeroDeLinha(sheet))),
                        feitas, 1))
    /\ UNCHANGED <<pc, raw_transportes, raw_descargas, df_transportes, df_descargas,
                   transportes_atualizado, indices_descargas_usados, mapa_chaves,
                   mapa_placa, transportes_para_etapa_2, matches, vars_main,
                   vars_transito, vars_orq, vars_hid, vars_norm, vars_proc>>

NextRodadas == RodarMatcher \/ RodarTransito

SpecRodadas == InitRodadas /\ [][NextRodadas]_vars


(***************************************************************************)
(* Capacidade.py, executar_processo: the rows collected from SharePoint    *)
(* are written to a tab of the Google sheet, after the rows the tab held   *)
(* from earlier days (history mode) or in their place.  One step is one    *)
(* complete call.                                                          *)
(***************************************************************************)
\* Rows in the destination tab before the call, and rows collected.
MaxAba == 2
MaxColeta == 2

\* A day as the text '%Y-%m-%d': 'd' and the number of the day.
Digito(n) == IF n = 1 THEN "1" ELSE IF n = 2 THEN "2" ELSE IF n = 3 THEN "3" ELSE "4"
strftime_Ymd(d) == IF d = NaT THEN NaN ELSE <<"d", Digito(d)>>

\* pd.to_datetime(errors='coerce') of a cell of the tab: the day of a text
\* in the form above or in the form day-first ('3/d'), NaT for anything else.
to_datetime(c) ==
    IF Len(c) = 2 /\ c[1] = "d" /\ c[2] \in {"1", "2", "3", "4"}
    THEN CHOOSE n \in 1..4 : Digito(n) = c[2]
    ELSE IF Len(c) = 3 /\ c[2] = "/" /\ c[3] = "d" /\ c[1] \in {"1", "2", "3", "4"}
    THEN CHOOSE n \in 1..4 : Digito(n) = c[1]
    ELSE NaT

\* date.today().strftime('%Y-%m-%d')
today_str == strftime_Ymd(hoje)

\* datetime.now() - timedelta(days=3)
data_limite == hoje - 3

\* get_as_dataframe(empty_value=np.nan): an empty cell is read as NaN.
CelulaLida(c) == IF c = <<>> THEN NaN ELSE c

\* df.astype(str).replace('nan', ''): the text of the cell, '' for NaN.
CelulaSalva(c) == IF Str(c) = <<"n","a","n">> THEN <<>> ELSE Str(c)

\* The rows of the tab as read: every text cell through CelulaLida, the
\* dates of the first column as dates.
get_as_dataframe(aba) ==
    [i \in 1..Len(aba) |->
        [c \in DOMAIN aba[i] |->
            IF c = "data" THEN aba[i][c] ELSE CelulaLida(aba[i][c])]]

\* df_historico_preservado: with a Data_Atualizacao column the column is
\* parsed and printed again and the rows of today are dropped (NaN differs
\* from today_str); without the column every row is kept.
df_historico_preservado(df_historico) ==
    IF df_historico # <<>> /\ "Data_Atualizacao" \in DOMAIN df_historico[1]
    THEN LET norm == [i \in 1..Len(df_historico) |->
                         [df_historico[i] EXCEPT !.Data_Atualizacao =
                             strftime_Ymd(to_datetime(Str(@)))]]
         IN SelectSeq(norm, LAMBDA r : r.Data_Atualizacao # today_str)
    ELSE df_historico

\* The filter on the first column: rows without a date and rows not after
\* data_limite are dropped.
FiltroDeData(df) == SelectSeq(df, LAMBDA r : r.data # NaT /\ r.data > data_limite)

\* df_bruto['Data_Atualizacao'] = today_str
ComDataAtualizacao(df) ==
    [i \in 1..Len(df) |->
        [c \in (DOMAIN df[i]) \cup {"Data_Atualizacao"} |->
            IF c = "Data_Atualizacao" THEN today_str ELSE df[i][c]]]

\* pd.concat of frames whose columns may differ: a missing cell is NaN.
Concat(a, b) ==
    LET cols == UNION {DOMAIN r : r \in Range(a) \cup Range(b)}
        todos == a \o b
    IN [i \in 1..Len(todos) |->
          [c \in cols |-> IF c \in DOMAIN todos[i] THEN todos[i][c] ELSE NaN]]

\* salvar_no_sheets: "ok" clears the tab and writes df as text; "erro_antes"
\* fails before worksheet.clear(); "erro_depois" fails after it.  Every
\* failure is logged and swallowed.
salvar_no_sheets(aba, df, resultado) ==
    IF resultado = "erro_antes" THEN aba
    ELSE IF resultado = "erro_depois" THEN <<>>
    ELSE [i \in 1..Len(df) |->
             [c \in DOMAIN df[i] |->
                IF c = "data" THEN df[i][c] ELSE CelulaSalva(df[i][c])]]

\* The rows of the tab before the call: written by earlier calls in history
\* mode, with the day of yesterday or of today in either form, a text that
\* is no date, or nothing.
CelulasDataAtualizacao ==
    {strftime_Ymd(ontem), today_str, <<Digito(hoje), "/", "d">>, <<"x">>, <<>>}

LinhasDaAba ==
    [dado : {<<"a">>, <<"b">>}, data : {1}, Data_Atualizacao : CelulasDataAtualizacao]

\* The rows coletar_dados returns: dated today, four days ago, or undated.
LinhasColetadas == [dado : {<<"c">>}, data : {NaT, hoje - 4, hoje}]

InitProcesso ==
    /\ DriveSheetsParado
    /\ TransitoParado
    /\ OrquestradorParado
    /\ HidratadoParado
    /\ NormalizadorParado
    /\ RodadasParadas
    /\ pc_proc = "chamada"
    /\ chamada \in [manter_historico : BOOLEAN, aplicar_filtro_data : BOOLEAN]
    /\ aba_destino \in UNION {[1..n -> LinhasDaAba] : n \in 0..MaxAba}
    /\ aba_inicial = aba_destino
    /\ log_proc = {}

\* executar_processo: nothing collected ends the call; otherwise the date
\* filter, the history read (which may fail and is then taken as empty),
\* the concatenation and the save.
ExecutarProcesso ==
    /\ pc_proc = "chamada"
    /\ pc_proc' = "fim"
    /\ \E coletado \in UNION {[1..n -> LinhasColetadas] : n \in 0..MaxColeta},
          leitura \in {"ok", "erro"},
          gravacao \in {"ok", "erro_antes", "erro_depois"} :
          IF coletado = <<>>
          THEN /\ log_proc' = {"warning"}
               /\ UNCHANGED aba_destino
          ELSE LET df_bruto == IF chamada.aplicar_filtro_data
                               THEN FiltroDeData(coletado) ELSE coletado
                   preservado == IF leitura = "ok"
                                 THEN df_historico_preservado(get_as_dataframe(aba_destino))
                                 ELSE <<>>
                   df_final == IF chamada.manter_historico
                               THEN Concat(preservado, ComDataAtualizacao(df_bruto))
                               ELSE df_bruto
               IN /\ aba_destino' = salvar_no_sheets(aba_destino, df_final, gravacao)
                  /\ log_proc' =
                        (IF chamada.manter_historico /\ leitura = "erro"
                         THEN {"warning"} ELSE {})
                        \cup (IF gravacao = "ok" THEN {} ELSE {"error"})
    /\ UNCHANGED <<chamada, aba_inicial>>
    /\ UNCHANGED <<pc, raw_transportes, raw_descargas, df_transportes, df_descargas,
                   transportes_atualizado, indices_descargas_usados, mapa_chaves,
                   mapa_placa, transportes_para_etapa_2, matches, vars_main,
                   vars_transito, vars_orq, vars_hid, vars_norm, vars_rodadas>>

NextProcesso == ExecutarProcesso

SpecProcesso == InitProcesso /\ [][NextProcesso]_vars


(***************************************************************************)
(* Vocabulary of the properties.                                           *)
(***************************************************************************)
\* The matcher ran both stages and returned.
Cruzou == pc = "fim" /\ df_transportes # <<>> /\ df_descargas # <<>>

Descargas == Range(df_descargas)
Entradas == Range(df_transportes)

DescargaDe(idx) == CHOOSE r \in Descargas : r.index = idx
EntradaDe(idx) == CHOOSE t \in Entradas : t.index = idx
SaidaDe(idx) == CHOOSE t \in Range(transportes_atualizado) : t.index = idx

\* Position of a status text in the chain
\* Scheduled (0) -> InTransit (1) -> AwaitingUnload (2) -> Unloaded (3).
Grau(status) ==
    LET st == Lower(status)
    IN IF st = descarregado THEN 3
       ELSE IF Contem(aguardando, st) THEN 2
       ELSE IF Contem(transito, st) THEN 1
       ELSE 0

\* Same normalized (document number, product, counterparty).
MesmaChavePrimaria(t, d) ==
    /\ normalizar_texto_para_chave(t.nfe) = normalizar_texto_para_chave(d.nota)
    /\ normalizar_texto_para_chave(t.produto) = normalizar_texto_para_chave(d.produto)
    /\ normalizar_texto_para_chave(t.recebedor) =
           normalizar_texto_para_chave(d.Fonte_Padronizada)

\* Same normalized (plate, product, counterparty).
MesmaChavePlaca(t, d) ==
    /\ normalizar_texto_para_chave(t.cavalo) = normalizar_texto_para_chave(d.placa)
    /\ normalizar_texto_para_chave(t.produto) = normalizar_texto_para_chave(d.produto)
    /\ normalizar_texto_para_chave(t.recebedor) =
           normalizar_texto_para_chave(d.Fonte_Padronizada)

(***************************************************************************)
(* C1.  Within one run, a descarga consumed by a match with one transport  *)
(* never matches a second transport, in either stage.                      *)
(* The code keeps no check of indices_descargas_usados in the lookups, so  *)
(* TLC refutes this statement.                                             *)
(***************************************************************************)
C1_DescargaCasaUmaVez ==
    \A m1 \in matches : \A m2 \in matches :
        m1[3] = m2[3] => m1[2] = m2[2]

(***************************************************************************)
(* C2.  For every transport S of the matcher's input and every descarga I  *)
(* with the same normalized (document, product, counterparty), after the   *)
(* run S has a stage-1 match and I is consumed.                            *)
(***************************************************************************)
\* The statement as claimed: refuted when two descargas share the key.
C2_TodaDescargaIgualConsumida ==
    Cruzou =>
        \A t \in Entradas : \A d \in Descargas :
            MesmaChavePrimaria(t, d) =>
                /\ \E m \in matches : m[1] = 1 /\ m[2] = t.index
                /\ d.index \in indices_descargas_usados

\* As amended: S has a stage-1 match, and the descarga consumed by it is the
\* last one in input order that carries the key.
C2_UltimaDescargaIgualConsumida ==
    Cruzou =>
        \A t \in Entradas : \A d \in Descargas :
            MesmaChavePrimaria(t, d) =>
                /\ \E m \in matches : m[1] = 1 /\ m[2] = t.index
                /\ (\A e \in Descargas : MesmaChavePrimaria(t, e) => e.index <= d.index)
                       => /\ <<1, t.index, d.index>> \in matches
                          /\ d.index \in indices_descargas_usados

C2_Testemunha ==
    /\ Cruzou
    /\ \E t \in Entradas : \E d \in Descargas : \E e \in Descargas :
          /\ MesmaChavePrimaria(t, d) /\ MesmaChavePrimaria(t, e)
          /\ e.index < d.index
          /\ <<1, t.index, d.index>> \in matches
          /\ d.index \in indices_descargas_usados
          /\ e.index \notin indices_descargas_usados

(***************************************************************************)
(* C3.  Stage 2 (plate) never matches a transport to a descarga whose      *)
(* issue date is earlier than the transport's loading date.                *)
(***************************************************************************)
C3_Etapa2RespeitaDataDeCarregamento ==
    \A m \in matches :
        m[1] = 2 =>
            /\ EntradaDe(m[2]).data_de_carregamento # NaT
            /\ ~(DescargaDe(m[3]).data < EntradaDe(m[2]).data_de_carregamento)

\* A run with a stage-2 hit and with a plate candidate rejected for its date.
C3_Testemunha ==
    /\ Cruzou
    /\ \E m \in matches : m[1] = 2
    /\ \E t \in Range(transportes_para_etapa_2) : \E d \in Descargas :
          /\ MesmaChavePlaca(t, d)
          /\ t.data_de_carregamento # NaT
          /\ d.data < t.data_de_carregamento
          /\ \A m \in matches : ~(m[1] = 2 /\ m[2] = t.index)

(***************************************************************************)
(* C4.  The first stage that succeeds wins: a transport that matched a     *)
(* descarga by primary key is never looked up or matched by plate key in   *)
(* the same run.                                                           *)
(* Stage 2 takes the rows stage 1 did not UPDATE, which includes the rows  *)
(* it matched without a change of status, so TLC refutes this statement.   *)
(***************************************************************************)
C4_CasadoNaEtapa1NaoVaiParaEtapa2 ==
    Cruzou =>
        \A m \in matches :
            m[1] = 1 =>
                /\ \A t \in Range(transportes_para_etapa_2) : t.index # m[2]
                /\ \A n \in matches : ~(n[1] = 2 /\ n[2] = m[2])

(***************************************************************************)
(* C5.  Whenever a transport is matched to a descarga without unload date, *)
(* its status after the run is AwaitingUnload.                             *)
(* Refuted through the defect of C4: a row matched in stage 1 without a    *)
(* change goes on to stage 2 and may be unloaded from another descarga.    *)
(***************************************************************************)
C5_SemDataDeDescargaFicaAguardando ==
    Cruzou =>
        \A m \in matches :
            DescargaDe(m[3]).data_de_descarga = NaT =>
                Grau(SaidaDe(m[2]).status) = 2

(***************************************************************************)
(* C6.  Whenever a transport is matched to a descarga with an unload date, *)
(* its status after the run is Unloaded and its unload date is the         *)
(* descarga's unload date.                                                 *)
(***************************************************************************)
C6_ComDataDeDescargaFicaDescarregado ==
    Cruzou =>
        \A m \in matches :
            DescargaDe(m[3]).data_de_descarga # NaT =>
                /\ SaidaDe(m[2]).status = DESCARREGADO
                /\ SaidaDe(m[2]).data_descarga = DescargaDe(m[3]).data_de_descarga

\* Reached in both stages, from InTransit and from AwaitingUnload.
C6_Testemunha ==
    /\ Cruzou
    /\ \E m \in matches :
          /\ m[1] = 2
          /\ DescargaDe(m[3]).data_de_descarga # NaT
          /\ Grau(EntradaDe(m[2]).status) = 2
          /\ SaidaDe(m[2]).data_descarga = DescargaDe(m[3]).data_de_descarga


(***************************************************************************)
(* C7.  No status change made by the matcher skips a state of the chain    *)
(* Scheduled -> InTransit -> AwaitingUnload -> Unloaded.                   *)
(***************************************************************************)
\* The statement as claimed: refuted by 'em trânsito' -> 'DESCARREGADO'.
C7_TransicaoParaSucessorImediato ==
    \A s \in Range(transportes_atualizado) :
        Grau(s.status) # Grau(EntradaDe(s.index).status) =>
            Grau(s.status) = Grau(EntradaDe(s.index).status) + 1

\* As amended: a change never goes backward; it is InTransit -> AwaitingUnload
\* on a match without unload date, and InTransit -> Unloaded (one state
\* skipped) or AwaitingUnload -> Unloaded on a match with unload date.
C7_TransicaoParaFrente ==
    \A s \in Range(transportes_atualizado) :
        LET antes == Grau(EntradaDe(s.index).status)
            depois == Grau(s.status)
        IN /\ depois >= antes
           /\ depois # antes =>
                \/ /\ antes = 1 /\ depois = 2
                   /\ \E m \in matches :
                         m[2] = s.index /\ DescargaDe(m[3]).data_de_descarga = NaT
                \/ /\ antes \in {1, 2} /\ depois = 3
                   /\ \E m \in matches :
                         m[2] = s.index /\ DescargaDe(m[3]).data_de_descarga # NaT

\* A run that takes a row from InTransit straight to Unloaded.
C7_Testemunha ==
    /\ Cruzou
    /\ \E s \in Range(transportes_atualizado) :
          /\ Grau(EntradaDe(s.index).status) = 1 /\ Grau(s.status) = 3
          /\ \E m \in matches :
                m[2] = s.index /\ DescargaDe(m[3]).data_de_descarga # NaT

(***************************************************************************)
(* C8.  The worked example: transport {nfe '123', produto 'HIDRATADO',     *)
(* cavalo 'ABC1234'} against descarga {nota '123', produto 'Hidratado ',   *)
(* placa 'ABC1234', no unload date} ends the run AwaitingUnload with the   *)
(* arrival date set from the descarga's issue date.                        *)
(***************************************************************************)
ExemploTransporte(t, status) ==
    /\ t.status = status
    /\ t.nfe = <<"1","2","3">>
    /\ t.produto = <<"H","I","D","R","A","T","A","D","O">>
    /\ t.cavalo = <<"A","B","C","1","2","3","4">>

ExemploDescarga(d) ==
    /\ d.nota = <<"1","2","3">>
    /\ d.produto = <<"H","i","d","r","a","t","a","d","o"," ">>
    /\ d.placa = <<"A","B","C","1","2","3","4">>
    /\ d.data_de_descarga = NaT

ExemploRodou(status) ==
    /\ pc = "fim"
    /\ Len(raw_transportes) = 1 /\ Len(raw_descargas) = 1
    /\ ExemploTransporte(raw_transportes[1], status)
    /\ ExemploDescarga(raw_descargas[1])

\* The row of the sheet after the run: the updated row when the row went
\* through the matcher, the row as read otherwise.
LinhaFinal(i) ==
    IF \E s \in Range(transportes_atualizado) : s.index = i
    THEN SaidaDe(i) ELSE raw_transportes[i]

C9_RetemDataMaisRecente ==
    Cruzou =>
        \A d1 \in Descargas : \A d2 \in Descargas :
            /\ (d1.chave_primaria = d2.chave_primaria /\ d1.data < d2.data)
                  => mapa_chaves[d1.chave_primaria].index # d1.index
            /\ (d1.chave_placa_fonte_produto = d2.chave_placa_fonte_produto
                /\ d1.data < d2.data)
                  => mapa_placa[d1.chave_placa_fonte_produto].index # d1.index

\* As amended: of two such rows the one later in input order is retained,
\* whichever issue date is the later one.
C9_RetemUltimaNaOrdemDeEntrada ==
    Cruzou =>
        \A d1 \in Descargas : \A d2 \in Descargas :
            /\ (d1.chave_primaria = d2.chave_primaria /\ d1.data # d2.data
                /\ d1.index < d2.index)
                  => mapa_chaves[d1.chave_primaria].index # d1.index
            /\ (d1.chave_placa_fonte_produto = d2.chave_placa_fonte_produto
                /\ d1.data # d2.data /\ d1.index < d2.index)
                  => mapa_placa[d1.chave_placa_fonte_produto].index # d1.index

\* The later-dated row comes first and is the one dropped, in both indexes.
C9_Testemunha ==
    /\ Cruzou
    /\ \E d1 \in Descargas : \E d2 \in Descargas :
          /\ d1.chave_primaria = d2.chave_primaria
          /\ d1.chave_placa_fonte_produto = d2.chave_placa_fonte_produto
          /\ d1.index < d2.index /\ d1.data > d2.data
          /\ mapa_chaves[d1.chave_primaria].index = d2.index
          /\ mapa_placa[d1.chave_placa_fonte_produto].index = d2.index

(***************************************************************************)
(* C10.  When several descargas share a key, index construction keeps      *)
(* exactly one of them, the last in input order; this holds for the        *)
(* primary index and for the plate index.                                  *)
(***************************************************************************)
UltimaComChave(col, k) ==
    CHOOSE d \in Descargas :
        /\ d[col] = k
        /\ \A e \in Descargas : e[col] = k => e.index <= d.index

C10_IndiceGuardaUltima ==
    Cruzou =>
        /\ DOMAIN mapa_chaves = {d.chave_primaria : d \in Descargas}
        /\ \A k \in DOMAIN mapa_chaves :
              mapa_chaves[k] = UltimaComChave("chave_primaria", k)
        /\ DOMAIN mapa_placa = {d.chave_placa_fonte_produto : d \in Descargas}
        /\ \A k \in DOMAIN mapa_placa :
              mapa_placa[k] = UltimaComChave("chave_placa_fonte_produto", k)

C10_Testemunha ==
    /\ Cruzou
    /\ Len(df_descargas) = 2
    /\ Cardinality(DOMAIN mapa_chaves) = 1
    /\ Cardinality(DOMAIN mapa_placa) = 1
    /\ mapa_chaves[df_descargas[1].chave_primaria] = df_descargas[2]
    /\ mapa_placa[df_descargas[1].chave_placa_fonte_produto] = df_descargas[2]
    /\ df_descargas[1] # df_descargas[2]


(***************************************************************************)
(* Vocabulary of the properties of main.                                   *)
(***************************************************************************)
\* The update section ran to its end.
Atualizou == pc \in {"relatorio", "terminado"}
LinhasRelatorio == Range(relatorio.linhas)
SemMatch(idx) == \A m \in matches : m[2] # idx

(***************************************************************************)
(* C11.  Every descarga left unconsumed by the matcher whose product is a  *)
(* gasoline or diesel product of the allow-list and whose unload date is   *)
(* blank or today is a row of the divergence report written by the run.    *)
(***************************************************************************)
\* The gasoline and diesel products of products_to_include.
ProdutosDoRelatorio == {products_to_include[k] : k \in 4..9}

\* Unload date inside the window of the report.
NaJanela(d) == d.data_de_descarga \in {NaT, hoje}

\* Some key of the descarga is the key of a sheet row unloaded today.
JaDescarregadoHoje(d) ==
    \E i \in 1..Len(raw_transportes) :
        /\ Lower(raw_transportes[i].status) = descarregado
        /\ raw_transportes[i].data_descarga = hoje
        /\ \/ MesmaChavePrimaria(raw_transportes[i], d)
           \/ MesmaChavePlaca(raw_transportes[i], d)

C12_ConsumidaForaDoRelatorio ==
    relatorio.escrito =>
        \A r \in LinhasRelatorio : r.index \notin indices_descargas_usados

\* A report with a row, written by a run that consumed a descarga which
\* passes every filter of the report.
C12_Testemunha ==
    /\ relatorio.escrito
    /\ LinhasRelatorio # {}
    /\ \E d \in Descargas :
          /\ d.index \in indices_descargas_usados
          /\ filtro_produto(d) /\ filtro_data(d)
          /\ filtro_excecao(d, raw_transportes)

(***************************************************************************)
(* C13.  A sheet row for which neither stage found a match keeps its       *)
(* status, arrival date and unload date, and the run writes no cell of it. *)
(***************************************************************************)
C13_SemMatchFicaComoEstava ==
    \A i \in 1..Len(raw_transportes) :
        SemMatch(i) =>
            /\ \A c \in celulas_escritas : c[1] # i
            /\ \A t \in Range(transportes_atualizado) :
                  t.index = i =>
                      /\ t.status = raw_transportes[i].status
                      /\ t.data_chegada = raw_transportes[i].data_chegada
                      /\ t.data_descarga = raw_transportes[i].data_descarga
                      /\ t.fonte_atualizacao = NaoAtualizado

\* The update section wrote the cells of a matched row while another row of
\* the matcher's input had no match.
C13_Testemunha ==
    /\ Atualizou
    /\ celulas_escritas # {}
    /\ \E t \in Range(transportes_atualizado) : SemMatch(t.index)


(***************************************************************************)
(* C14.  A cell update of update_excel_row is attempted at most three      *)
(* times, every attempt that is followed by another one failed and was     *)
(* followed by the same sleep of 2 s, so no attempt follows a success.     *)
(***************************************************************************)
C14_NoMaximoTresTentativas ==
    /\ Len(celula_log.resultados) <= 3
    /\ \A j \in 1..(Len(celula_log.resultados) - 1) :
          /\ celula_log.resultados[j] = FALSE
          /\ celula_log.sonos[j] = 20

\* A cell written on the third attempt, after two failures.
C14_Testemunha == celula_log.resultados = <<FALSE, FALSE, TRUE>>

(***************************************************************************)
(* C15.  When a cell of a row still fails after the last retry, the        *)
(* failure is logged as an error and the row is skipped: no later cell of  *)
(* that row is attempted.                                                  *)
(* update_excel_row gives up the cell only and goes on with the next       *)
(* column of the same row, so TLC refutes this statement.                  *)
(***************************************************************************)
C15_LinhaComFalhaEPulada ==
    ultima_falha # <<0, 0>> =>
        /\ "error" \in log_transito
        /\ ~(celula_log.linha = ultima_falha[1] /\ celula_log.coluna > ultima_falha[2])


(***************************************************************************)
(* C16.  The orchestrator never has two subprocesses alive, and while a    *)
(* script runs every script before it in the list has been run and none    *)
(* after it has been started.                                              *)
(***************************************************************************)
C16_UmSubprocessoPorVez ==
    /\ subprocessos <= 1
    /\ pc_orq = "pipeline" =>
          \A i \in 1..Len(scripts_para_rodar) :
              /\ i < script => tentados[i] >= 1
              /\ i > script => tentados[i] = 0

\* The last script of the list is running, after all the others.
C16_Testemunha ==
    /\ subprocessos = 1
    /\ script = Len(scripts_para_rodar)
    /\ \A i \in 1..(Len(scripts_para_rodar) - 1) : tentados[i] = 1

(***************************************************************************)
(* C17.  In every pipeline run each script of the list is attempted        *)
(* exactly once, whether or not a script failed.                           *)
(***************************************************************************)
C17_CadaScriptUmaVez ==
    /\ \A i \in 1..Len(scripts_para_rodar) : tentados[i] <= 1
    /\ pc_orq = "agendador" =>
          \A i \in 1..Len(scripts_para_rodar) : tentados[i] = 1

\* A pipeline run that ended after the failure of one of its scripts.
C17_Testemunha ==
    /\ pc_orq = "agendador"
    /\ houve_falha
    /\ \A i \in 1..Len(scripts_para_rodar) : tentados[i] = 1


GrupoHidratado ==
    /\ sp_rows # <<>>
    /\ Lower(Strip(sp_rows[1].produto)) = Lower(TxtHidratado)

C19_ModoNxM ==
    (pc_hid = "atualizado" /\ GrupoHidratado) =>
        LET N == Len(sp_rows)
            M == Len(faturado_rows_list)
        IN /\ \A i \in 1..Min(N, M) :
                 pedidos_celulas[i].nfe = faturado_rows_list[i].numero
           /\ \A i \in (M + 1)..N : pedidos_celulas[i].status = PMM_nao_Utilizada
           /\ Len(linhas_adicionadas) = (IF M > N THEN M - N ELSE 0)


(***************************************************************************)
(* C20.  Two raw texts that differ only in the case of letters or in       *)
(* blanks around them have equal normalized keys; in particular            *)
(* 'Hidratado ', 'HIDRATADO' and 'hidratado' have the same key.            *)
(***************************************************************************)
\* The two texts are equal once stripped and put in one case.
SoCaixaEEspacos == Lower(Strip(entradas[1])) = Lower(Strip(entradas[2]))

C20_MesmaChave ==
    (pc_norm = "normalizado" /\ SoCaixaEEspacos) =>
        /\ chaves[1] = chaves[2]
        /\ textos[1] = textos[2]

\* 'Hidratado ' and 'HIDRATADO' were normalized to 'hidratado'.
C20_Testemunha ==
    /\ pc_norm = "normalizado"
    /\ entradas = <<TxtHidratadoEspaco, TxtHIDRATADO>>
    /\ chaves = <<Lower(TxtHidratado), Lower(TxtHidratado)>>


(***************************************************************************)
(* C21.  For any raw text the key normalizer returns the canonical key:    *)
(* the text in upper case, with the accents stripped from its letters and  *)
(* every character that is not a letter or a digit removed.                *)
(***************************************************************************)
\* The canonical key of the claim.
ChaveCanonica(s) ==
    SelectSeq(Upper(RemoverAcentos(s)), LAMBDA c : c \in AlfaNumMaiusculo)

EntradaTexto == entradas[1] \notin CelulasNulas

C21_ChaveCanonica ==
    (pc_norm = "normalizado" /\ EntradaTexto) =>
        /\ chaves[1] = ChaveCanonica(entradas[1])
        /\ textos[1] = ChaveCanonica(entradas[1])


(***************************************************************************)
(* C22.  The key normalizer is total: a null or an empty input yields the  *)
(* empty text.                                                             *)
(***************************************************************************)
C22_NuloOuVazioDaVazio ==
    (pc_norm = "normalizado" /\ entradas[1] \in CelulasNulas \cup {<<>>}) =>
        chaves[1] = <<>>


(***************************************************************************)
(* C27.  The primary tier matches a transport only when it carries an      *)
(* invoice number: a transport whose nfe is empty is never matched on the  *)
(* primary key.                                                            *)
(***************************************************************************)
NfeVazia(t) == Strip(t.nfe) = <<>>

C27_NfeVaziaSemMatchPrimario ==
    \A m \in matches : m[1] = 1 => ~NfeVazia(EntradaDe(m[2]))


(***************************************************************************)
(* C23.  In one run of the Transito Drives script a sheet row is updated   *)
(* with at most one invoice: no row is written twice with different        *)
(* invoice numbers.                                                        *)
(***************************************************************************)
\* The calls whose nfe cell was patched.
NfeEscrita(e) == "nfe" \in e.feitas

C23_UmaNotaPorLinha ==
    \A i, j \in DOMAIN escritas :
        (/\ NfeEscrita(escritas[i])
         /\ NfeEscrita(escritas[j])
         /\ escritas[i].row_num = escritas[j].row_num)
            => escritas[i].nfe = escritas[j].nfe


(***************************************************************************)
(* C24.  An invoice number that is in the nfe column of a sheet row at the *)
(* start of the run, or that was written to a row earlier in the run, is   *)
(* never written to another row.                                           *)
(***************************************************************************)
\* The numbers in the nfe column when the run starts.
NfesNoInicio == {SemPontoZero(Strip(Str(r.nfe))) : r \in Range(df_transporte)}

C24_NotaJaUsadaNaoEReescrita ==
    \A j \in DOMAIN escritas :
        NfeEscrita(escritas[j]) =>
            /\ escritas[j].nfe \notin NfesNoInicio
            /\ \A i \in 1..(j - 1) :
                  escritas[i].nfe = escritas[j].nfe =>
                      escritas[i].row_num = escritas[j].row_num


(***************************************************************************)
(* C29.  In the Em Trânsito Hidratado script an invoice leaves the pool    *)
(* only if it was written to a sheet row: an invoice found for a group but *)
(* not used stays in the pool.                                             *)
(***************************************************************************)
\* The numbers passed to update_cell or add_rows for the group.
NumerosEscritos ==
    {pedidos_celulas[i].nfe : i \in DOMAIN pedidos_celulas} \cup Range(linhas_adicionadas)

C29_SoSaiDoPoolSeEscrita ==
    pc_hid = "atualizado" =>
        \A r \in Range(faturado_rows) :
            r \notin Range(df_faturados) => r.numero \in NumerosEscritos


(***************************************************************************)
(* C25.  Every sheet whose banner was set to red at the start of the       *)
(* update phase has a green or a yellow banner when the script exits.      *)
(***************************************************************************)
Saiu == pc \in {"terminado", "sys_exit_1"}

\* The colours the API applied to the banner, in order.
CoresAplicadas == SelectSeq(banners, LAMBDA b : b.ok)

C25_BannerNaoFicaVermelho ==
    (Saiu /\ \E i \in DOMAIN CoresAplicadas : CoresAplicadas[i].cor = "RED") =>
        CoresAplicadas[Len(CoresAplicadas)].cor \in {"GREEN", "YELLOW"}


(***************************************************************************)
(* C26.  The banner is set to green only if every data-cell write of the   *)
(* run to the sheet succeeded; if one failed, it is set to yellow.         *)
(***************************************************************************)
\* The batch of cells of this run did not reach the sheet.
EscritaDeDadosFalhou ==
    /\ transportes_atualizado # <<>>
    /\ cell_updates(df_updates(transportes_atualizado)) # {}
    /\ celulas_escritas = {}

C26_VerdeSoComEscritasFeitas ==
    (pc \in {"relatorio", "terminado", "sys_exit_1"} /\ EscritaDeDadosFalhou) =>
        /\ \A i \in DOMAIN banners : banners[i].cor # "GREEN"
        /\ \E i \in DOMAIN banners : banners[i].cor = "YELLOW"


(***************************************************************************)
(* C28.  Across any sequence of runs of the matcher scripts the status of  *)
(* a sheet row never moves backward along Scheduled -> InTransit ->        *)
(* AwaitingUnload -> Unloaded, and a row that is Unloaded is never         *)
(* modified again.                                                         *)
(***************************************************************************)
C28_StatusNuncaRecua ==
    \A a, b \in DOMAIN historico :
        a < b =>
            \A i \in DOMAIN historico[a] :
                /\ Grau(historico[b][i].status) >= Grau(historico[a][i].status)
                /\ Grau(historico[a][i].status) = 3 =>
                       historico[b][i] = historico[a][i]

\* A row went through the whole chain in three runs, next to a row that was
\* unloaded from the start.
C28_Testemunha ==
    /\ Len(historico) = 4
    /\ \E i \in DOMAIN historico[1] :
          \A k \in 1..4 : Grau(historico[k][i].status) = k - 1
    /\ \E i \in DOMAIN historico[1] : Grau(historico[1][i].status) = 3


(***************************************************************************)
(* C30.  In history mode executar_processo preserves the existing data:    *)
(* after a call that collected rows, every row the destination tab held    *)
(* with a Data_Atualizacao of another day than today is still in the tab,  *)
(* and only the rows of today are replaced.                                *)
(***************************************************************************)
\* The update day written in a row of the tab.
DiaDaLinha(r) == to_datetime(r.Data_Atualizacao)

\* The row is in the tab, whatever the form of its update day.
EstaNaAba(r, aba) ==
    \E k \in DOMAIN aba :
        /\ aba[k].dado = r.dado
        /\ aba[k].data = r.data
        /\ "Data_Atualizacao" \in DOMAIN aba[k]
        /\ DiaDaLinha(aba[k]) = DiaDaLinha(r)

C30_HistoricoPreservado ==
    (pc_proc = "fim" /\ chamada.manter_historico) =>
        \A i \in DOMAIN aba_inicial :
            (DiaDaLinha(aba_inicial[i]) \notin {NaT, hoje}) =>
                EstaNaAba(aba_inicial[i], aba_destino)

====
